---------------------------- MODULE Spec2Model ----------------------------
(***************************************************************************)
(* A model of the Animated prop-binding engine of react-native:            *)
(*   Libraries/Animated/src/nodes/AnimatedProps.js   (class AnimatedProps) *)
(*   createAnimatedComponent (two revisions, src/unnamed/part_000)         *)
(*                                                                         *)
(* The program state is kept in one record, the "world" (variable world):  *)
(* the AnimatedProps instances, the animated value nodes, the style        *)
(* composites (AnimatedStyle objects made by AnimatedProps), the           *)
(* AnimatedEvent objects, the native backend (node-to-view connections and *)
(* event bindings), the calls made by the operation that ran last (log)    *)
(* and the exception it raised (err).  Every method of the source is an    *)
(* operator from worlds to worlds; an operator applied to a world in which *)
(* an exception is pending returns the world unchanged, which is how a     *)
(* throw leaves the rest of a handler unexecuted.                          *)
(*                                                                         *)
(* AnimatedNode, AnimatedStyle, AnimatedEvent, deepDiffer and the native   *)
(* helper are not among the source files; they are modelled from the       *)
(* specification (section 2, 3 and 6) and marked so in the map.            *)
(***************************************************************************)
EXTENDS Integers, Sequences, FiniteSets, Bags, TLC

VARIABLES world, comp, lastOp

vars == <<world, comp, lastOp>>

-----------------------------------------------------------------------------
(* Bounds and the universe of objects                                      *)

\* animated values range over 0..MaxValue
MaxValue == 1

None == "none"

\* AnimatedProps instances (the wrapper keeps at most two alive at a time)
Insts == {"P1", "P2"}
\* AnimatedValue objects
Nodes == {"n1", "n2"}
\* AnimatedStyle objects created by `new AnimatedStyle(...)`
Comps == {"c1", "c2", "c3"}
\* an AnimatedStyle object the caller made: new AnimatedStyle({opacity: n2})
CallerStyles == {"s1"}
Styles == Comps \cup CallerStyles
\* AnimatedEvent objects: e1 and e2 are distinct objects with equal fields
Events == {"e1", "e2", "e3"}
\* mounted view handles; vB is a scroll container, vC has no setNativeProps
Views == {"vA", "vB", "vC"}

KeyOrder == <<"style", "opacity", "onScroll">>
KeySet == {KeyOrder[i] : i \in 1..Len(KeyOrder)}

EvMapping(e) == IF e = "e3" THEN "m2" ELSE "m1"
EvNative(e) == e # "e3"

HasSetNativeProps(v) == v \in {"vA", "vB"}
\* view.getScrollableNode ? view.getScrollableNode() : view
ScrollableNode(v) == IF v = "vB" THEN "vB_inner" ELSE v

-----------------------------------------------------------------------------
(* Property values (the tagged variants of a PropertyBag entry)            *)

Undefined == [kind |-> "undefined"]
Static(x) == [kind |-> "static", val |-> x]
NodeRef(n) == [kind |-> "node", ref |-> n]
EventRef(e) == [kind |-> "event", ref |-> e]
\* a plain style object {opacity: inner}
Plain(inner) == [kind |-> "plain", inner |-> inner]
\* an AnimatedStyle object (the composite of a style)
StyleRef(c) == [kind |-> "astyle", ref |-> c]

IsAnimatedStyle(value) == value.kind = "astyle"
IsAnimatedNode(value) == value.kind \in {"node", "astyle"}
IsAnimatedEvent(value) == value.kind = "event"

StyleValues == {Plain(Static(0)), Plain(NodeRef("n1"))}
OpacityValues == {Static(0)} \cup {NodeRef(n) : n \in Nodes}
OnScrollValues == {EventRef(e) : e \in Events}

ValuesFor(key) ==
  CASE key = "style" -> StyleValues
    [] key = "opacity" -> OpacityValues
    [] OTHER -> OnScrollValues

\* the property bags: a key is absent or holds one of its values
Bags ==
  UNION {[ks -> UNION {ValuesFor(k) : k \in ks}] : ks \in SUBSET KeySet}

WellFormed(bag) == \A k \in DOMAIN bag : bag[k] \in ValuesFor(k)

PropertyBags == {bag \in Bags : WellFormed(bag)}

\* object[key]
Get(object, key) == IF key \in DOMAIN object THEN object[key] ELSE Undefined

\* the keys of a bag in iteration order
RECURSIVE KeysFrom(_, _)
KeysFrom(object, i) ==
  IF i > Len(KeyOrder) THEN <<>>
  ELSE (IF KeyOrder[i] \in DOMAIN object THEN <<KeyOrder[i]>> ELSE <<>>)
       \o KeysFrom(object, i + 1)

ObjectKeys(object) == KeysFrom(object, 1)

SeqSet(s) == {s[i] : i \in 1..Len(s)}

\* F applied to the value of e: e is computed once, before F runs
Do(e, F(_)) == CHOOSE r \in {F(x) : x \in {e}} : TRUE

-----------------------------------------------------------------------------
(* The world                                                               *)

\* no consumer registered (the _children of a fresh node)
NoChildren == EmptyBag

\* a bag with one more, or one less, copy of x
AddOne(bag, x) == bag (+) SetToBag({x})
RemoveOne(bag, x) == bag (-) SetToBag({x})

NoInstance ==
  [exists |-> FALSE, attached |-> FALSE, props |-> <<>>, view |-> None,
   styleProp |-> None, isNative |-> FALSE, firstValueReturned |-> FALSE,
   reattachAll |-> FALSE]

EmptyWorld ==
  [inst |-> [p \in Insts |-> NoInstance],
   vnode |-> [n \in Nodes |->
                [value |-> 0, isNative |-> FALSE, children |-> NoChildren]],
   snode |-> [c \in Styles |->
                [style |-> IF c \in CallerStyles
                           THEN Plain(NodeRef("n2"))
                           ELSE Undefined,
                 isNative |-> FALSE, children |-> NoChildren]],
   attachedEvent |-> [e \in Events |-> None],
   conn |-> EmptyBag,
   evb |-> EmptyBag,
   log |-> <<>>,
   err |-> None]

Call(op, a, b, key) == [op |-> op, a |-> a, b |-> b, key |-> key]

Logged(w, call) == [w EXCEPT !.log = Append(@, call)]

\* invariant(false, msg) and `throw new Error(msg)`
Raise(w0, msg) ==
  Do(w0, LAMBDA w :
  IF w.err # None THEN w ELSE [w EXCEPT !.err = msg])

Failed(w) == w.err # None

Total(children) == BagCardinality(children)

-----------------------------------------------------------------------------
(* AnimatedNode / AnimatedWithChildren / AnimatedStyle / AnimatedEvent     *)

\* the animated value nodes inside a plain style object
StyleInner(style) ==
  IF style.kind = "plain" /\ style.inner.kind = "node"
  THEN {style.inner.ref} ELSE {}

\* AnimatedValue.__addChild(child)
Value__addChild(w0, n, child) ==
  Do(w0, LAMBDA w :
  IF Failed(w) THEN w
  ELSE Logged([w EXCEPT !.vnode[n].children = AddOne(@, child)],
              Call("addChild", n, child, None)))

\* AnimatedValue.__removeChild(child): an unknown child is only warned about
Value__removeChild(w0, n, child) ==
  Do(w0, LAMBDA w :
  IF Failed(w) THEN w
  ELSE IF CopiesIn(child, w.vnode[n].children) = 0
  THEN Logged(w, Call("removeChildMissing", n, child, None))
  ELSE Logged([w EXCEPT !.vnode[n].children = RemoveOne(@, child)],
              Call("removeChild", n, child, None)))

\* AnimatedValue.__makeNative()
Value__makeNative(w, n) ==
  IF Failed(w) THEN w
  ELSE Logged([w EXCEPT !.vnode[n].isNative = TRUE],
              Call("makeNative", n, None, None))

\* AnimatedStyle.__attach(): subscribe to the animated values of the style
Style__attach(w0, c) ==
  Do(w0, LAMBDA w :
  LET inner == StyleInner(w.snode[c].style)
  IN IF inner = {} THEN w
     ELSE Value__addChild(w, CHOOSE n \in inner : TRUE, c))

\* AnimatedStyle.__detach()
Style__detach(w0, c) ==
  Do(w0, LAMBDA w :
  LET inner == StyleInner(w.snode[c].style)
  IN IF inner = {} THEN w
     ELSE Value__removeChild(w, CHOOSE n \in inner : TRUE, c))

\* AnimatedStyle.__addChild(child): the first child attaches the composite
Style__addChild(w0, c, child) ==
  Do(w0, LAMBDA w :
  IF Failed(w) THEN w
  ELSE LET w1 == IF Total(w.snode[c].children) = 0
                 THEN Style__attach(w, c) ELSE w
       IN Logged([w1 EXCEPT !.snode[c].children = AddOne(@, child)],
                 Call("addChild", c, child, None)))

\* AnimatedStyle.__removeChild(child): the last child detaches the composite
Style__removeChild(w0, c, child) ==
  Do(w0, LAMBDA w :
  IF Failed(w) THEN w
  ELSE IF CopiesIn(child, w.snode[c].children) = 0
  THEN Logged(w, Call("removeChildMissing", c, child, None))
  ELSE LET w1 == Logged([w EXCEPT !.snode[c].children = RemoveOne(@, child)],
                        Call("removeChild", c, child, None))
       IN IF Total(w1.snode[c].children) = 0
          THEN Style__detach(w1, c) ELSE w1)

\* AnimatedStyle.__makeNative(): the composite and the values of its style
Style__makeNative(w0, c) ==
  Do(w0, LAMBDA w :
  IF Failed(w) THEN w
  ELSE LET inner == StyleInner(w.snode[c].style)
           w1 == Logged([w EXCEPT !.snode[c].isNative = TRUE],
                        Call("makeNative", c, None, None))
       IN IF inner = {} THEN w1
          ELSE Value__makeNative(w1, CHOOSE n \in inner : TRUE))

\* value.__addChild(child) for an AnimatedNode value
Node__addChild(w, value, child) ==
  IF IsAnimatedStyle(value) THEN Style__addChild(w, value.ref, child)
  ELSE Value__addChild(w, value.ref, child)

\* value.__removeChild(child) for an AnimatedNode value
Node__removeChild(w, value, child) ==
  IF IsAnimatedStyle(value) THEN Style__removeChild(w, value.ref, child)
  ELSE Value__removeChild(w, value.ref, child)

\* value.__makeNative() for an AnimatedNode value
Node__makeNative(w, value) ==
  IF IsAnimatedStyle(value) THEN Style__makeNative(w, value.ref)
  ELSE Value__makeNative(w, value.ref)

\* a composite no object refers to: the storage of the next `new`
FreeComps(w) ==
  {c \in Comps : /\ Total(w.snode[c].children) = 0
                 /\ \A p \in Insts : w.inst[p].styleProp # c}

\* new AnimatedStyle(style)
NewAnimatedStyle(w, c, style) ==
  [w EXCEPT !.snode[c] =
     [style |-> style, isNative |-> FALSE, children |-> NoChildren]]

\* AnimatedEvent.__attach(viewRef, eventName)
Event__attach(w0, e, target, key) ==
  Do(w0, LAMBDA w :
  IF Failed(w) THEN w
  ELSE Logged([w EXCEPT !.attachedEvent[e] = <<target, key>>,
                        !.evb = AddOne(@, <<target, key, e>>)],
              Call("eventAttach", e, target, key)))

\* AnimatedEvent.__detach(viewTag, eventName)
Event__detach(w0, e, target, key) ==
  Do(w0, LAMBDA w :
  IF Failed(w) THEN w
  ELSE Logged([w EXCEPT !.attachedEvent[e] = None,
                        !.evb = RemoveOne(@, <<target, key, e>>)],
              Call("eventDetach", e, target, key)))

\* NativeAnimatedHelper.API.connectAnimatedNodeToView(nodeTag, viewTag)
connectAnimatedNodeToView(w0, p, view) ==
  Do(w0, LAMBDA w :
  IF Failed(w) THEN w
  ELSE Logged([w EXCEPT !.conn = AddOne(@, <<p, view>>)],
              Call("connect", p, view, None)))

\* NativeAnimatedHelper.API.disconnectAnimatedNodeFromView(nodeTag, viewTag)
disconnectAnimatedNodeFromView(w0, p, view) ==
  Do(w0, LAMBDA w :
  IF Failed(w) THEN w
  ELSE Logged([w EXCEPT !.conn = RemoveOne(@, <<p, view>>)],
              Call("disconnect", p, view, None)))

-----------------------------------------------------------------------------
(* deepDiffer and the diff of AnimatedProps                                *)

\* the own fields of an object, as deepDiffer walks them
Fields(w, value) ==
  CASE value.kind = "node" -> w.vnode[value.ref]
    [] value.kind = "astyle" -> w.snode[value.ref]
    [] value.kind = "event" ->
         [argMapping |-> EvMapping(value.ref),
          isNative |-> EvNative(value.ref),
          attachedEvent |-> w.attachedEvent[value.ref]]
    [] OTHER -> value

\* deepDiffer(one, two) on values without nested objects
flatDiffer(w, one, two) ==
  IF one.kind # two.kind THEN TRUE
  ELSE IF one.kind \in {"node", "astyle", "event"}
  THEN one.ref # two.ref /\ Fields(w, one) # Fields(w, two)
  ELSE one # two

\* deepDiffer(one, two): TRUE when the two values are not deep-equal
deepDiffer(w, one, two) ==
  IF one.kind = "plain" /\ two.kind = "plain"
  THEN flatDiffer(w, one.inner, two.inner)
  ELSE flatDiffer(w, one, two)

\* ({_attachedEvent, ...a} = a); deepDiffer(a, b)
eventDiffer(w, a, b) ==
  LET StripA == IF IsAnimatedEvent(a)
                THEN [argMapping |-> EvMapping(a.ref),
                      isNative |-> EvNative(a.ref)]
                ELSE a
      StripB == IF IsAnimatedEvent(b)
                THEN [argMapping |-> EvMapping(b.ref),
                      isNative |-> EvNative(b.ref)]
                ELSE b
  IN IF IsAnimatedEvent(a) /\ IsAnimatedEvent(b) THEN StripA # StripB
     ELSE TRUE

\* animatedDiff without the two destructuring assignments: the cached
\* _attachedEvent of an event takes part in the comparison
animatedDiff_keepsAttachedEvent(w, a, b) == deepDiffer(w, a, b)

\* animatedDiff(a, b)
animatedDiff(w, a, b) ==
  IF IsAnimatedEvent(a) \/ IsAnimatedEvent(b)
  THEN eventDiffer(w, a, b)
  ELSE deepDiffer(w, a, b)

\* animatedKeys(object)
animatedKeys(object) ==
  LET Animated(key) == \/ key = "style"
                       \/ IsAnimatedNode(object[key])
                       \/ IsAnimatedEvent(object[key])
  IN SelectSeq(ObjectKeys(object), Animated)

-----------------------------------------------------------------------------
(* class AnimatedProps                                                     *)

\* F(w, p, key, this._props[key]) for the entries of this._props, in order
RECURSIVE ForEach(_, _, _, _, _)
ForEach(F(_, _, _, _), w, p, object, keys) ==
  IF keys = <<>> THEN w
  ELSE ForEach(F, F(w, p, Head(keys), object[Head(keys)]), p, object,
               Tail(keys))

\* Object.entries(this._props).forEach(([key, value]) => F(key, value))
ForEachEntry(F(_, _, _, _), w0, p) ==
  Do(w0, LAMBDA w :
  ForEach(F, w, p, w.inst[p].props, ObjectKeys(w.inst[p].props)))

__scrollableView(w, p) == ScrollableNode(w.inst[p].view)

__connectView(w0, p) ==
  Do(w0, LAMBDA w :
  IF Failed(w) THEN w
  ELSE IF ~(w.inst[p].isNative /\ w.inst[p].view # None) THEN w
  ELSE connectAnimatedNodeToView(w, p, w.inst[p].view))

__disconnectView(w0, p) ==
  Do(w0, LAMBDA w :
  IF Failed(w) THEN w
  ELSE IF ~(w.inst[p].isNative /\ w.inst[p].view # None) THEN w
  ELSE disconnectAnimatedNodeFromView(w, p, w.inst[p].view))

__attachValueProp(w0, p, key, value) ==
  Do(w0, LAMBDA w :
  IF Failed(w) THEN w
  ELSE IF key = "style" /\ ~IsAnimatedStyle(value)
  THEN IF w.inst[p].styleProp # None
       THEN Raise(w, "Expected last style prop to be detached")
       ELSE LET c == CHOOSE x \in FreeComps(w) : TRUE
                w1 == NewAnimatedStyle(w, c, value)
                w2 == [w1 EXCEPT !.inst[p].styleProp = c]
            IN Node__addChild(w2, StyleRef(c), p)
  ELSE IF ~IsAnimatedNode(value) THEN w
  ELSE Node__addChild(w, value, p))

__attachValueProps(w, p) == ForEachEntry(__attachValueProp, w, p)

\* __attachEventProp that does not ask whether the event is native
__attachEventProp_anyEvent(w0, p, key, value) ==
  Do(w0, LAMBDA w :
  IF Failed(w) THEN w
  ELSE IF ~(w.inst[p].view # None /\ IsAnimatedEvent(value)) THEN w
  ELSE Event__attach(w, value.ref, __scrollableView(w, p), key))

__attachEventProp(w0, p, key, value) ==
  Do(w0, LAMBDA w :
  IF Failed(w) THEN w
  ELSE IF ~(w.inst[p].view # None /\ IsAnimatedEvent(value)
            /\ EvNative(value.ref))
  THEN w
  ELSE Event__attach(w, value.ref, __scrollableView(w, p), key))

__attachEventProps(w, p) == ForEachEntry(__attachEventProp, w, p)

\* __detachValueProp that unsubscribes only from what the instance made
__detachValueProp_keepsCallerStyle(w0, p, key, value) ==
  Do(w0, LAMBDA w :
  IF Failed(w) THEN w
  ELSE IF key = "style"
  THEN IF IsAnimatedStyle(value) THEN w
       ELSE IF w.inst[p].styleProp = None
       THEN Raise(w, "Expected style prop to detach")
       ELSE Node__removeChild([w EXCEPT !.inst[p].styleProp = None],
                              StyleRef(w.inst[p].styleProp), p)
  ELSE IF ~IsAnimatedNode(value) THEN w
  ELSE Node__removeChild(w, value, p))

__detachValueProp(w0, p, key, value) ==
  Do(w0, LAMBDA w :
  IF Failed(w) THEN w
  ELSE IF key = "style" /\ ~IsAnimatedStyle(value)
  THEN IF w.inst[p].styleProp = None
       THEN Raise(w, "Expected style prop to detach")
       ELSE Node__removeChild([w EXCEPT !.inst[p].styleProp = None],
                              StyleRef(w.inst[p].styleProp), p)
  ELSE IF ~IsAnimatedNode(value) THEN w
  ELSE Node__removeChild(w, value, p))

__detachValueProps(w, p) == ForEachEntry(__detachValueProp, w, p)

__detachEventProp(w0, p, key, value) ==
  Do(w0, LAMBDA w :
  IF Failed(w) THEN w
  ELSE IF ~(w.inst[p].view # None /\ IsAnimatedEvent(value)
            /\ EvNative(value.ref))
  THEN w
  ELSE Event__detach(w, value.ref, __scrollableView(w, p), key))

__detachEventProps(w, p) == ForEachEntry(__detachEventProp, w, p)

__makeValuePropNative(w0, p, key, value) ==
  Do(w0, LAMBDA w :
  IF Failed(w) THEN w
  ELSE IF ~w.inst[p].isNative THEN w
  ELSE IF key = "style"
  THEN IF w.inst[p].styleProp = None
       THEN Raise(w, "Expected style prop to make native")
       ELSE Node__makeNative(w, StyleRef(w.inst[p].styleProp))
  ELSE IF ~IsAnimatedNode(value) THEN w
  ELSE Node__makeNative(w, value))

__makeValuePropsNative(w, p) == ForEachEntry(__makeValuePropNative, w, p)

\* __attachProp that makes no subscription
__attachProp_withoutSubscription(w, p, key, value) ==
  LET w2 == __makeValuePropNative(w, p, key, value)
  IN __attachEventProp(w2, p, key, value)

\* __attachProp that leaves the new value as it is, native or not
__attachProp_withoutNative(w, p, key, value) ==
  LET w1 == __attachValueProp(w, p, key, value)
  IN __attachEventProp(w1, p, key, value)

__attachProp(w, p, key, value) ==
  LET w1 == __attachValueProp(w, p, key, value)
      w2 == __makeValuePropNative(w1, p, key, value)
  IN __attachEventProp(w2, p, key, value)

\* __detachProp that leaves the value subscription in place
__detachProp_eventsOnly(w, p, key, value) ==
  __detachEventProp(w, p, key, value)

__detachProp(w, p, key, value) ==
  LET w1 == __detachValueProp(w, p, key, value)
  IN __detachEventProp(w1, p, key, value)

\* __replaceProp that releases the old binding before it makes the new one
__replaceProp_detachFirst(w0, p, key, lastValue, nextValue) ==
  Do(w0, LAMBDA w :
  IF Failed(w) THEN w
  ELSE IF key = "style"
  THEN IF w.inst[p].styleProp = None
       THEN Raise(w, "Expected style prop to detach")
       ELSE LET last == StyleRef(w.inst[p].styleProp)
                w1 == [w EXCEPT !.inst[p].styleProp = None]
                w2 == __detachProp(w1, p, key, last)
            IN __attachProp(w2, p, key, nextValue)
  ELSE LET w1 == __detachProp(w, p, key, lastValue)
       IN __attachProp(w1, p, key, nextValue))

__replaceProp(w0, p, key, lastValue, nextValue) ==
  Do(w0, LAMBDA w :
  IF Failed(w) THEN w
  ELSE IF key = "style"
  THEN IF w.inst[p].styleProp = None
       THEN Raise(w, "Expected style prop to detach")
       ELSE LET last == StyleRef(w.inst[p].styleProp)
                w1 == [w EXCEPT !.inst[p].styleProp = None]
                w2 == __attachProp(w1, p, key, nextValue)
            IN __detachProp(w2, p, key, last)
  ELSE LET w1 == __attachProp(w, p, key, nextValue)
       IN __detachProp(w1, p, key, lastValue))

\* AnimatedNode.__attach() / AnimatedNode.__detach() of the instance itself
Base__attach(w0, p) ==
  Do(w0, LAMBDA w :
  IF Failed(w) THEN w ELSE [w EXCEPT !.inst[p].attached = TRUE])

Base__detach(w0, p) ==
  Do(w0, LAMBDA w :
  IF Failed(w) THEN w
  ELSE Logged([w EXCEPT !.inst[p].attached = FALSE],
              Call("baseDetach", p, None, None)))

__attach(w, p) ==
  LET w1 == Base__attach(w, p)
      w2 == __attachValueProps(w1, p)
  IN __attachEventProps(w2, p)

\* __detach that removes the subscriptions before it leaves the view
__detach_subscriptionsFirst(w, p) ==
  LET w1 == __detachValueProps(w, p)
      w2 == __detachEventProps(w1, p)
      w3 == __disconnectView(w2, p)
  IN Base__detach(w3, p)

\* __detach that leaves the backend connection in place
__detach_keepsConnection(w, p) ==
  LET w2 == __detachEventProps(w, p)
      w3 == __detachValueProps(w2, p)
  IN Base__detach(w3, p)

__detach(w, p) ==
  LET w1 == __disconnectView(w, p)
      w2 == __detachEventProps(w1, p)
      w3 == __detachValueProps(w2, p)
  IN Base__detach(w3, p)

\* new AnimatedProps(props, callback)
NewAnimatedProps(w, p, props) ==
  __attach([w EXCEPT !.inst[p] =
              [NoInstance EXCEPT !.exists = TRUE, !.props = props]], p)

\* this._view = nextView
setView(w0, p, nextView) ==
  Do(w0, LAMBDA w :
  IF Failed(w) THEN w
  ELSE Logged([w EXCEPT !.inst[p].view = nextView],
              Call("rebind", p, nextView, None)))

\* updateView without its early return for an identical view
updateView_noShortCircuit(w0, p, nextView) ==
  Do(w0, LAMBDA w :
  IF Failed(w) THEN w
  ELSE LET w1 == __detachEventProps(w, p)
           w2 == __disconnectView(w1, p)
           w3 == setView(w2, p, nextView)
           w4 == __connectView(w3, p)
       IN __attachEventProps(w4, p))

\* updateView that rebinds before it releases the old view
updateView_rebindsFirst(w0, p, nextView) ==
  Do(w0, LAMBDA w :
  IF Failed(w) THEN w
  ELSE IF w.inst[p].view = nextView THEN w
  ELSE LET w1 == setView(w, p, nextView)
           w2 == __detachEventProps(w1, p)
           w3 == __disconnectView(w2, p)
           w4 == __connectView(w3, p)
       IN __attachEventProps(w4, p))

updateView(w0, p, nextView) ==
  Do(w0, LAMBDA w :
  IF Failed(w) THEN w
  ELSE IF w.inst[p].view = nextView THEN w
  ELSE LET w1 == __detachEventProps(w, p)
           w2 == __disconnectView(w1, p)
           w3 == setView(w2, p, nextView)
           w4 == __connectView(w3, p)
       IN __attachEventProps(w4, p))

\* __makeNative without its early return for a native instance
__makeNative_again(w, p) ==
  IF Failed(w) THEN w
  ELSE LET w1 == IF w.inst[p].firstValueReturned
                 THEN [w EXCEPT !.inst[p].reattachAll = TRUE] ELSE w
           w2 == [w1 EXCEPT !.inst[p].isNative = TRUE]
           w3 == __makeValuePropsNative(w2, p)
       IN __connectView(w3, p)

__makeNative(w0, p) ==
  Do(w0, LAMBDA w :
  IF Failed(w) THEN w
  ELSE IF w.inst[p].isNative THEN w
  ELSE LET w1 == IF w.inst[p].firstValueReturned
                 THEN [w EXCEPT !.inst[p].reattachAll = TRUE] ELSE w
           w2 == [w1 EXCEPT !.inst[p].isNative = TRUE]
           w3 == __makeValuePropsNative(w2, p)
       IN __connectView(w3, p))

\* one round of nextKeys.forEach in updateProps; acc = [w, next]
updatePropsKey(acc0, p, reattachAll, lastProps, key) ==
  Do(acc0, LAMBDA acc :
  IF Failed(acc.w) THEN acc
  ELSE IF reattachAll
          \/ animatedDiff(acc.w, Get(lastProps, key), Get(acc.next, key))
  THEN [acc EXCEPT !.w =
          __replaceProp(Logged(acc.w, Call("replace", key, p, key)), p, key,
                        Get(lastProps, key), Get(acc.next, key))]
  ELSE [w |-> Logged(acc.w, Call("reuse", key, p, key)),
        next |-> [acc.next EXCEPT ![key] = Get(lastProps, key)]])

RECURSIVE updatePropsKeys(_, _, _, _, _)
updatePropsKeys(acc, p, reattachAll, lastProps, keys) ==
  IF keys = <<>> THEN acc
  ELSE updatePropsKeys(
         updatePropsKey(acc, p, reattachAll, lastProps, Head(keys)),
         p, reattachAll, lastProps, Tail(keys))

updateProps(w0, p, nextProps) ==
  Do(w0, LAMBDA w :
  IF Failed(w) THEN w
  ELSE LET reattachAll == w.inst[p].reattachAll
           lastProps == w.inst[p].props
           nextKeys == animatedKeys(nextProps)
           NotNext(key) == key \notin SeqSet(nextKeys)
           lastKeys == SelectSeq(animatedKeys(lastProps), NotNext)
           Nullify(x, q, key, value) ==
             __detachProp(Logged(x, Call("nullify", key, q, key)), q, key,
                          value)
           Finish(acc) ==
             IF Failed(acc.w) THEN acc.w
             ELSE [acc.w EXCEPT !.inst[p].props = acc.next,
                                !.inst[p].reattachAll = FALSE]
           Removed(acc) ==
             Do([acc EXCEPT !.w = ForEach(Nullify, acc.w, p, lastProps,
                                          lastKeys)],
                Finish)
       IN Do(updatePropsKeys([w |-> w, next |-> nextProps], p, reattachAll,
                             lastProps, nextKeys),
             Removed))

\* the value of an entry of __getValue() that treats a native style as it
\* treats a native value
resolvedValue_withoutStyleException(w, p, key, value) ==
  LET v == IF key = "style" THEN StyleRef(w.inst[p].styleProp) ELSE value
  IN CASE v.kind = "astyle" ->
            LET style == w.snode[v.ref].style
                inner == StyleInner(style)
            IN IF w.snode[v.ref].isNative THEN Undefined
               ELSE IF inner = {} THEN style
               ELSE Plain(Static(w.vnode[CHOOSE x \in inner : TRUE].value))
       [] v.kind = "node" ->
            IF w.vnode[v.ref].isNative THEN Undefined
            ELSE Static(w.vnode[v.ref].value)
       [] v.kind = "event" -> [kind |-> "handler", ref |-> v.ref]
       [] OTHER -> v

\* the value of one entry in the bag __getValue() returns
resolvedValue(w, p, key, value) ==
  LET v == IF key = "style" THEN StyleRef(w.inst[p].styleProp) ELSE value
  IN CASE v.kind = "astyle" ->
            LET style == w.snode[v.ref].style
                inner == StyleInner(style)
            IN IF inner = {} THEN style
               ELSE LET n == CHOOSE x \in inner : TRUE
                    IN IF w.vnode[n].isNative THEN Plain(Undefined)
                       ELSE Plain(Static(w.vnode[n].value))
       [] v.kind = "node" ->
            IF w.vnode[v.ref].isNative THEN Undefined
            ELSE Static(w.vnode[v.ref].value)
       [] v.kind = "event" -> [kind |-> "handler", ref |-> v.ref]
       [] OTHER -> v

\* the bag __getValue() returns (keys resolved to undefined are left out)
getValueResult(w, p) ==
  LET props == w.inst[p].props
      keys == {key \in DOMAIN props :
                 resolvedValue(w, p, key, props[key]) # Undefined}
  IN [key \in keys |-> resolvedValue(w, p, key, props[key])]

\* whether an accessor meets a style key without its cached composite
styleMissing(w, p) ==
  "style" \in DOMAIN w.inst[p].props /\ w.inst[p].styleProp = None

__getValue(w0, p) ==
  Do(w0, LAMBDA w :
  IF Failed(w) THEN w
  ELSE LET w1 == [w EXCEPT !.inst[p].firstValueReturned = TRUE]
       IN IF styleMissing(w, p) THEN Raise(w1, "Expected style prop")
          ELSE Logged(w1, Call("getValue", p, getValueResult(w, p), None)))

\* the value of one entry in the bag __getAnimatedValue() returns
animatedValue(w, p, key, value) ==
  LET v == IF key = "style" THEN StyleRef(w.inst[p].styleProp) ELSE value
  IN CASE v.kind = "astyle" ->
            LET inner == StyleInner(w.snode[v.ref].style)
            IN IF inner = {} THEN Plain(Undefined)
               ELSE Plain(Static(w.vnode[CHOOSE x \in inner : TRUE].value))
       [] v.kind = "node" -> Static(w.vnode[v.ref].value)
       [] OTHER -> Undefined

\* __getAnimatedValue answering with what __getValue answers
__getAnimatedValue_withStatics(w, p) == getValueResult(w, p)

\* the bag __getAnimatedValue() returns
__getAnimatedValue(w, p) ==
  LET props == w.inst[p].props
      keys == {key \in DOMAIN props :
                 key = "style" \/ IsAnimatedNode(props[key])}
  IN [key \in keys |-> animatedValue(w, p, key, props[key])]

-----------------------------------------------------------------------------
(* The engine on its own: one AnimatedProps instance and its callers       *)

\* composites that no instance subscribes to any more are garbage
Collect(w0) ==
  Do(w0, LAMBDA w :
  [w EXCEPT !.snode =
     [c \in Styles |->
        IF c \in Comps
           /\ Total(w.snode[c].children) = 0
           /\ \A p \in Insts : w.inst[p].styleProp # c
        THEN EmptyWorld.snode[c] ELSE w.snode[c]]])

\* the world at the start of an operation: the call log is that of the
\* operation
Begin(w) == [w EXCEPT !.log = <<>>]

\* the views the engine is bound to when driven on its own
EngineViews == {"vA", "vB"}

NoComponent ==
  [variant |-> 0, phase |-> "unmounted", props |-> <<>>, component |-> None,
   prevComponent |-> None, propsAnimated |-> None,
   invokeOnMount |-> FALSE, skipSetNativeProps |-> FALSE,
   eventDetachers |-> <<>>, collapsable |-> "undefined"]

\* the record of the operation that ran last: its name, receiver and
\* argument, and the world and the component it started from
Op(op, p, arg, w, c) ==
  [op |-> op, inst |-> p, arg |-> arg, pre |-> w, preComp |-> c]

Idle == Op("idle", None, None, EmptyWorld, NoComponent)

\* an operation starts only when the one before it has returned
Usable(p) ==
  /\ lastOp = Idle
  /\ world.err = None
  /\ world.inst[p].exists
  /\ world.inst[p].attached

Init ==
  /\ \E props \in PropertyBags :
       world = Collect(NewAnimatedProps(EmptyWorld, "P1", props))
  /\ comp = NoComponent
  /\ lastOp = Op("new", "P1", None, EmptyWorld, NoComponent)

UpdateProps ==
  /\ Usable("P1")
  /\ \E nextProps \in PropertyBags :
       /\ world' = Collect(updateProps(world, "P1", nextProps))
       /\ lastOp' = Op("updateProps", "P1", nextProps, world, comp)
  /\ UNCHANGED comp

UpdateView ==
  /\ Usable("P1")
  /\ \E nextView \in EngineViews \cup {None} :
       /\ world' = Collect(updateView(world, "P1", nextView))
       /\ lastOp' = Op("updateView", "P1", nextView, world, comp)
  /\ UNCHANGED comp

MakeNative ==
  /\ Usable("P1")
  /\ world' = Collect(__makeNative(world, "P1"))
  /\ lastOp' = Op("makeNative", "P1", None, world, comp)
  /\ UNCHANGED comp

GetValue ==
  /\ Usable("P1")
  /\ world' = Collect(__getValue(world, "P1"))
  /\ lastOp' = Op("getValue", "P1", None, world, comp)
  /\ UNCHANGED comp

Detach ==
  /\ Usable("P1")
  /\ world' = Collect(__detach(world, "P1"))
  /\ lastOp' = Op("detach", "P1", None, world, comp)
  /\ UNCHANGED comp

\* the operation returns to its caller: the record of its calls is dropped
Return ==
  /\ lastOp # Idle
  /\ world' = Begin(world)
  /\ lastOp' = Idle
  /\ UNCHANGED comp

Next ==
  \/ UpdateProps
  \/ UpdateView
  \/ MakeNative
  \/ GetValue
  \/ Detach
  \/ Return

Spec == Init /\ [][Next]_vars

-----------------------------------------------------------------------------
(* createAnimatedComponent: class AnimatedComponent                        *)
(* A state of the wrapper is a pair st = [w |-> world, c |-> component].   *)
(* The file holds two revisions of the class; the operators of the second  *)
(* one (the one that calls updateView) end in 2.                           *)

St(w, c) == [w |-> w, c |-> c]

OnWorld(st, w) == [st EXCEPT !.w = w]

\* animatedValueKeys(object)
animatedValueKeys(object) ==
  LET Animated(key) == key = "style" \/ IsAnimatedNode(object[key])
  IN SelectSeq(ObjectKeys(object), Animated)

\* animatedEventKeys(object)
animatedEventKeys(object) ==
  LET Animated(key) == IsAnimatedEvent(object[key])
  IN SelectSeq(ObjectKeys(object), Animated)

animatedValueDiff(w, a, b) == deepDiffer(w, a, b)

\* animatedEventDiff without the two destructuring assignments
animatedEventDiff_keepsAttachedEvent(w, a, b) == deepDiffer(w, a, b)

animatedEventDiff(w, a, b) ==
  IF IsAnimatedEvent(a) \/ IsAnimatedEvent(b)
  THEN eventDiffer(w, a, b)
  ELSE deepDiffer(w, a, b)

\* animatedValuePropsChanged(lastProps, nextProps), as a truth value
animatedValuePropsChanged(w, lastProps, nextProps) ==
  \/ animatedValueKeys(lastProps) # animatedValueKeys(nextProps)
  \/ \E key \in SeqSet(animatedValueKeys(lastProps)) :
       animatedValueDiff(w, lastProps[key], nextProps[key])

\* animatedEventPropsChanged(lastProps, nextProps), as a truth value
animatedEventPropsChanged(w, lastProps, nextProps) ==
  \/ animatedEventKeys(lastProps) # animatedEventKeys(nextProps)
  \/ \E key \in SeqSet(animatedEventKeys(lastProps)) :
       animatedEventDiff(w, lastProps[key], nextProps[key])

\* AnimatedProps.setNativeView(view) of the first revision: the binding of
\* the view handle, which this AnimatedProps provides as updateView
setNativeView(w, p, view) == updateView(w, p, view)

_setComponentRef(st0, c) ==
  Do(st0, LAMBDA st :
  IF Failed(st.w) THEN st
  ELSE [st EXCEPT !.c.prevComponent = st.c.component, !.c.component = c])

\* the values of the caller's static `collapsable` prop, which __getValue
\* hands back as it is
CollapsableValues == {"undefined", "true", "false"}

\* a render that hands the caller's collapsable on in every mode
collapsable_passThrough(st) == st.c.collapsable

\* collapsable={this._propsAnimated.__isNative ? false : props.collapsable}
collapsable(st) ==
  IF st.w.inst[st.c.propsAnimated].isNative THEN "false"
  ELSE st.c.collapsable

\* render(): the props handed to the wrapped component
render(st0) ==
  Do(st0, LAMBDA st :
  LET Element(w) ==
        IF Failed(w) THEN w
        ELSE Logged(w, Call("element", st.c.propsAnimated, collapsable(st),
                            None))
  IN OnWorld(st, Do(__getValue(st.w, st.c.propsAnimated), Element)))

\* one round of the loop of _attachNativeEvents
attachNativeEvent(st0, key) ==
  Do(st0, LAMBDA st :
  LET prop == st.c.props[key]
      scrollableNode == ScrollableNode(st.c.component)
  IN IF Failed(st.w) THEN st
     ELSE IF ~(IsAnimatedEvent(prop) /\ EvNative(prop.ref)) THEN st
     ELSE [w |-> Event__attach(st.w, prop.ref, scrollableNode, key),
           c |-> [st.c EXCEPT !.eventDetachers =
                    Append(@, <<prop.ref, scrollableNode, key>>)]])

RECURSIVE attachNativeEvents(_, _)
attachNativeEvents(st, keys) ==
  IF keys = <<>> THEN st
  ELSE attachNativeEvents(attachNativeEvent(st, Head(keys)), Tail(keys))

_attachNativeEvents(st0) ==
  Do(st0, LAMBDA st :
  attachNativeEvents(st, ObjectKeys(st.c.props)))

RECURSIVE runDetachers(_, _)
runDetachers(w, detachers) ==
  IF detachers = <<>> THEN w
  ELSE runDetachers(
         Event__detach(w, Head(detachers)[1], Head(detachers)[2],
                       Head(detachers)[3]),
         Tail(detachers))

_detachNativeEvents(st0) ==
  Do(st0, LAMBDA st :
  IF Failed(st.w) THEN st
  ELSE [w |-> runDetachers(st.w, st.c.eventDetachers),
        c |-> [st.c EXCEPT !.eventDetachers = <<>>]])

\* this._component.setNativeProps(this._propsAnimated.__getAnimatedValue())
callSetNativeProps(w0, p, component) ==
  Do(w0, LAMBDA w :
  IF Failed(w) THEN w
  ELSE IF styleMissing(w, p) THEN Raise(w, "Expected style prop")
  ELSE Logged(w, Call("setNativeProps", component,
                      __getAnimatedValue(w, p), None)))

componentDidUpdate(st0, prevProps) ==
  Do(st0, LAMBDA st :
  LET componentChanged == st.c.component # st.c.prevComponent
      propsChanged == animatedEventPropsChanged(st.w, prevProps, st.c.props)
      st1 == IF componentChanged
             THEN OnWorld(st, setNativeView(st.w, st.c.propsAnimated,
                                            st.c.component))
             ELSE st
  IN IF Failed(st.w) THEN st
     ELSE IF componentChanged \/ propsChanged
     THEN _attachNativeEvents(_detachNativeEvents(st1))
     ELSE st1)

componentDidUpdate2(st0, prevProps) ==
  Do(st0, LAMBDA st :
  IF Failed(st.w) THEN st
  ELSE IF st.c.component # st.c.prevComponent
  THEN OnWorld(st, updateView(st.w, st.c.propsAnimated, st.c.component))
  ELSE st)

\* this.forceUpdate() of a mounted component: render again, then
\* componentDidUpdate with the props it already has
forceUpdate(st0) ==
  Do(st0, LAMBDA st :
  IF Failed(st.w) THEN st
  ELSE LET st1 == render(OnWorld(st, Logged(st.w,
                     Call("forceUpdate", None, None, None))))
       IN IF st.c.variant = 1 THEN componentDidUpdate(st1, st.c.props)
          ELSE componentDidUpdate2(st1, st.c.props))

\* _animatedPropsCallback without the test-only override
_animatedPropsCallback_ignoresOverride(st0) ==
  Do(st0, LAMBDA st :
  IF Failed(st.w) THEN st
  ELSE IF st.c.component = None
  THEN [st EXCEPT !.c.invokeOnMount = TRUE]
  ELSE IF ~HasSetNativeProps(st.c.component)
  THEN forceUpdate(st)
  ELSE IF ~st.w.inst[st.c.propsAnimated].isNative
  THEN OnWorld(st, callSetNativeProps(st.w, st.c.propsAnimated,
                                      st.c.component))
  ELSE OnWorld(st, Raise(st.w, "Attempting to run JS driven animation")))

\* _animatedPropsCallback of the first revision
_animatedPropsCallback(st0) ==
  Do(st0, LAMBDA st :
  IF Failed(st.w) THEN st
  ELSE IF st.c.component = None
  THEN [st EXCEPT !.c.invokeOnMount = TRUE]
  ELSE IF st.c.skipSetNativeProps \/ ~HasSetNativeProps(st.c.component)
  THEN forceUpdate(st)
  ELSE IF ~st.w.inst[st.c.propsAnimated].isNative
  THEN OnWorld(st, callSetNativeProps(st.w, st.c.propsAnimated,
                                      st.c.component))
  ELSE OnWorld(st, Raise(st.w, "Attempting to run JS driven animation")))

\* the callback of the second revision without its check of native mode
callback2_mutatesWhenNative(st0) ==
  Do(st0, LAMBDA st :
  IF Failed(st.w) THEN st
  ELSE IF st.c.component = None
  THEN OnWorld(st, Raise(st.w, "TypeError: this._component is undefined"))
  ELSE IF HasSetNativeProps(st.c.component)
  THEN OnWorld(st, callSetNativeProps(st.w, st.c.propsAnimated,
                                      st.c.component))
  ELSE forceUpdate(st))

\* the callback of the second revision without its fallback to forceUpdate
callback2_withoutFallback(st0) ==
  Do(st0, LAMBDA st :
  IF Failed(st.w) THEN st
  ELSE IF st.c.component = None
  THEN OnWorld(st, Raise(st.w, "TypeError: this._component is undefined"))
  ELSE IF HasSetNativeProps(st.c.component)
  THEN IF ~st.w.inst[st.c.propsAnimated].isNative
       THEN OnWorld(st, callSetNativeProps(st.w, st.c.propsAnimated,
                                           st.c.component))
       ELSE OnWorld(st, Raise(st.w, "Attempting to run JS driven animation"))
  ELSE OnWorld(st, Raise(st.w, "TypeError: setNativeProps is not a function")))

\* the callback built by _attachProps of the second revision
callback2(st0) ==
  Do(st0, LAMBDA st :
  IF Failed(st.w) THEN st
  ELSE IF st.c.component = None
  THEN OnWorld(st, Raise(st.w, "TypeError: this._component is undefined"))
  ELSE IF HasSetNativeProps(st.c.component)
  THEN IF ~st.w.inst[st.c.propsAnimated].isNative
       THEN OnWorld(st, callSetNativeProps(st.w, st.c.propsAnimated,
                                           st.c.component))
       ELSE OnWorld(st, Raise(st.w, "Attempting to run JS driven animation"))
  ELSE forceUpdate(st))

\* AnimatedProps.update(): this._callback()
update(st0) ==
  Do(st0, LAMBDA st :
  IF st.c.variant = 1 THEN _animatedPropsCallback(st) ELSE callback2(st))

\* the storage of the next `new AnimatedProps`
FreeInst(st) == CHOOSE p \in Insts : p # st.c.propsAnimated

\* _attachProps that detaches the old instance before it makes the new one
_attachProps_detachFirst(st0, nextProps, force) ==
  Do(st0, LAMBDA st :
  LET changed == animatedValuePropsChanged(st.w, st.c.props, nextProps)
      oldPropsAnimated == st.c.propsAnimated
      p == FreeInst(st)
      Assign(w1) ==
        IF Failed(w1) THEN OnWorld(st, w1)
        ELSE [w |-> w1, c |-> [st.c EXCEPT !.propsAnimated = p]]
      Construct1(w1) == Do(NewAnimatedProps(w1, p, nextProps), Assign)
  IN IF Failed(st.w) THEN st
     ELSE IF force \/ changed
     THEN Do(IF oldPropsAnimated # None
             THEN __detach(st.w, oldPropsAnimated) ELSE st.w, Construct1)
     ELSE OnWorld(st, updateProps(st.w, st.c.propsAnimated, nextProps)))

\* _attachProps(nextProps, force) of the first revision
_attachProps(st0, nextProps, force) ==
  Do(st0, LAMBDA st :
  LET changed == animatedValuePropsChanged(st.w, st.c.props, nextProps)
      oldPropsAnimated == st.c.propsAnimated
      p == FreeInst(st)
      Replace(w1) ==
        IF Failed(w1) THEN OnWorld(st, w1)
        ELSE [w |-> IF oldPropsAnimated # None
                    THEN __detach(w1, oldPropsAnimated) ELSE w1,
              c |-> [st.c EXCEPT !.propsAnimated = p]]
  IN IF Failed(st.w) THEN st
     ELSE IF force \/ changed
     THEN Do(NewAnimatedProps(st.w, p, nextProps), Replace)
     ELSE OnWorld(st, updateProps(st.w, st.c.propsAnimated, nextProps)))

\* _attachProps(nextProps) of the second revision
_attachProps2(st0, nextProps) ==
  Do(st0, LAMBDA st :
  LET p == FreeInst(st)
      Assign(w1) ==
        IF Failed(w1) THEN OnWorld(st, w1)
        ELSE [w |-> w1, c |-> [st.c EXCEPT !.propsAnimated = p]]
  IN IF Failed(st.w) THEN st
     ELSE Do(NewAnimatedProps(st.w, p, st.c.props), Assign))

componentWillMount(st) ==
  _attachProps(st, st.c.props, st.c.propsAnimated = None)

componentWillMount2(st) == _attachProps2(st, st.c.props)

componentDidMount(st0) ==
  Do(st0, LAMBDA st :
  LET st1 == IF st.c.invokeOnMount
             THEN _animatedPropsCallback(
                    [st EXCEPT !.c.invokeOnMount = FALSE])
             ELSE st
      Attach(s1) == _attachProps(s1, s1.c.props, TRUE)
      Bind(s2) == OnWorld(s2, setNativeView(s2.w, s2.c.propsAnimated,
                                            s2.c.component))
  IN forceUpdate(_attachNativeEvents(Do(Do(st1, Attach), Bind))))

componentDidMount2(st0) ==
  Do(st0, LAMBDA st :
  OnWorld(st, updateView(st.w, st.c.propsAnimated, st.c.component)))

componentWillReceiveProps(st, newProps) ==
  _attachProps(st, newProps, st.c.propsAnimated = None)

componentWillReceiveProps2(st0, nextProps) ==
  Do(st0, LAMBDA st :
  OnWorld(st, updateProps(st.w, st.c.propsAnimated, nextProps)))

\* componentWillUnmount that leaves the wrapper's event bindings attached
componentWillUnmount_keepsNativeEvents(st) ==
  IF st.c.propsAnimated # None
  THEN OnWorld(st, __detach(st.w, st.c.propsAnimated))
  ELSE st

componentWillUnmount(st0) ==
  Do(st0, LAMBDA st :
  _detachNativeEvents(IF st.c.propsAnimated # None
                      THEN OnWorld(st, __detach(st.w, st.c.propsAnimated))
                      ELSE st))

componentWillUnmount2(st0) ==
  Do(st0, LAMBDA st :
  OnWorld(st, __detach(st.w, st.c.propsAnimated)))

-----------------------------------------------------------------------------
(* The wrapper in its life: construction, pre-mount and first render,      *)
(* mount, prop updates (with or without a change of the rendered view),    *)
(* value changes on the host thread, the switch to native mode, unmount.   *)

\* the bags the parent of the component renders it with
RenderedBags ==
  {bag \in PropertyBags :
     /\ Get(bag, "opacity") # NodeRef("n2")
     /\ Get(bag, "onScroll") # EventRef("e2")
     /\ ("style" \in DOMAIN bag /\ "onScroll" \in DOMAIN bag
           => "opacity" \notin DOMAIN bag)}

Values == 0..MaxValue

\* the AnimatedProps instances that hear of a change of value node n
Consumers(w, n) ==
  {p \in Insts :
     \/ CopiesIn(p, w.vnode[n].children) > 0
     \/ \E c \in Styles : /\ CopiesIn(c, w.vnode[n].children) > 0
                         /\ CopiesIn(p, w.snode[c].children) > 0}

\* AnimatedValue.setValue(value): store the value and call update() on the
\* AnimatedProps that consume the node
setValue(st0, n, value) ==
  Do(st0, LAMBDA st :
  LET st1 == OnWorld(st, [st.w EXCEPT !.vnode[n].value = value])
  IN IF st.c.propsAnimated \in Consumers(st.w, n) THEN update(st1) ELSE st1)

\* instances that were detached and replaced are garbage
CollectInstances(st0) ==
  Do(st0, LAMBDA st :
  [w |-> Collect([st.w EXCEPT !.inst =
                    [p \in Insts |->
                       IF p # st.c.propsAnimated /\ ~st.w.inst[p].attached
                       THEN NoInstance ELSE st.w.inst[p]]]),
   c |-> st.c])

\* new AnimatedComponent(props)
Constructed(variant, props, skip) ==
  [NoComponent EXCEPT !.variant = variant, !.phase = "constructed",
                      !.props = props, !.skipSetNativeProps = skip]

InitWrapper ==
  /\ world = EmptyWorld
  /\ lastOp = Idle
  /\ \E variant \in {1, 2}, props \in RenderedBags, skip \in BOOLEAN :
       /\ (variant = 2 => ~skip)
       /\ comp = Constructed(variant, props, skip)

Ready(phases) ==
  /\ lastOp = Idle
  /\ world.err = None
  /\ comp.phase \in phases

\* the result st of an operation op becomes the next state
Becomes(st, phase, op, arg) ==
  \E st1 \in {CollectInstances(st)} :
     /\ world' = st1.w
     /\ comp' = [st1.c EXCEPT !.phase = phase]
     /\ lastOp' = Op(op, comp.propsAnimated, arg, world, comp)

\* componentWillMount() and the first render()
WillMount ==
  /\ Ready({"constructed"})
  /\ LET st == St(world, comp)
         st1 == IF comp.variant = 1 THEN componentWillMount(st)
                ELSE componentWillMount2(st)
     IN Becomes(render(st1), "rendered", "willMount", None)

\* the commit of the mount: the ref of the rendered view, componentDidMount()
DidMount ==
  /\ Ready({"rendered"})
  /\ \E view \in Views :
       LET st == _setComponentRef(St(world, comp), view)
       IN Becomes(IF comp.variant = 1 THEN componentDidMount(st)
                  ELSE componentDidMount2(st),
                  "mounted", "didMount", view)

\* a render by the parent with new props: componentWillReceiveProps(),
\* render(), the ref when the rendered view is another one,
\* componentDidUpdate()
ReceiveProps ==
  /\ Ready({"mounted"})
  /\ \E nextProps \in RenderedBags, view \in Views :
       LET st == St(world, comp)
           st1 == IF comp.variant = 1
                  THEN componentWillReceiveProps(st, nextProps)
                  ELSE componentWillReceiveProps2(st, nextProps)
           Rendered(s1) == render([s1 EXCEPT !.c.props = nextProps])
           Ref(s2) == IF view = comp.component THEN s2
                      ELSE _setComponentRef(_setComponentRef(s2, None), view)
           st4 == IF comp.variant = 1
                  THEN componentDidUpdate(Do(Do(st1, Rendered), Ref),
                                          comp.props)
                  ELSE componentDidUpdate2(Do(Do(st1, Rendered), Ref),
                                           comp.props)
       IN Becomes(st4, "mounted", "receiveProps", <<nextProps, view>>)

\* a value node some instance consumes takes a new value on the host thread
Animate ==
  /\ Ready({"rendered", "mounted"})
  /\ \E n \in Nodes, value \in Values :
       /\ Consumers(world, n) # {}
       /\ value # world.vnode[n].value
       /\ Becomes(setValue(St(world, comp), n, value), comp.phase,
                  "setValue", <<n, value>>)

\* an animation with the native driver starts on a node of the component
StartNative ==
  /\ Ready({"rendered", "mounted"})
  /\ ~world.inst[comp.propsAnimated].isNative
  /\ Becomes(St(__makeNative(world, comp.propsAnimated), comp), comp.phase,
             "startNative", None)

\* componentWillUnmount(), then the ref of the removed view
Unmount ==
  /\ Ready({"mounted"})
  /\ LET st == St(world, comp)
         st1 == IF comp.variant = 1 THEN componentWillUnmount(st)
                ELSE componentWillUnmount2(st)
     IN Becomes(_setComponentRef(st1, None), "unmounted", "unmount", None)

NextWrapper ==
  \/ WillMount
  \/ DidMount
  \/ ReceiveProps
  \/ Animate
  \/ StartNative
  \/ Unmount
  \/ Return

SpecWrapper == InitWrapper /\ [][NextWrapper]_vars

-----------------------------------------------------------------------------
(* Properties of the engine                                                *)

P == "P1"

\* the world before the operation that ran last, and what it did
pre == lastOp.pre
before == lastOp.pre.inst[P]
after == world.inst[P]
log == world.log

Ran(op) == lastOp.op = op /\ lastOp.inst = P

Has(call) == \E i \in 1..Len(log) : log[i] = call

\* the keys updateProps reported as replaced, reused or nullified
Marked(op) == {log[i].key : i \in {j \in 1..Len(log) : log[j].op = op}}

AnimatedKeySet(object) == SeqSet(animatedKeys(object))

\* not deep-equal, an event's cached _attachedEvent left aside
NotDeepEqual(w, a, b) ==
  IF a.kind = "event" /\ b.kind = "event"
  THEN [Fields(w, a) EXCEPT !.attachedEvent = None]
         # [Fields(w, b) EXCEPT !.attachedEvent = None]
  ELSE deepDiffer(w, a, b)

\* the event target of the view bound before the operation
targetBefore == ScrollableNode(before.view)

\* key was replaced: the new value is bound and the old one released
ReplacedKey(key, old, new) ==
  /\ after.props[key] = new
  /\ IF key = "style"
     THEN /\ after.styleProp \notin {None, before.styleProp}
          /\ world.snode[after.styleProp].style = new
          /\ Has(Call("addChild", after.styleProp, P, None))
          /\ Has(Call("removeChild", before.styleProp, P, None))
     ELSE /\ new.kind = "node" => Has(Call("addChild", new.ref, P, None))
          /\ old.kind = "node" => Has(Call("removeChild", old.ref, P, None))
  /\ (before.view # None /\ new.kind = "event" /\ EvNative(new.ref))
       => Has(Call("eventAttach", new.ref, targetBefore, key))
  /\ (before.view # None /\ old.kind = "event" /\ EvNative(old.ref))
       => Has(Call("eventDetach", old.ref, targetBefore, key))

\* key was carried over: same object, no call on its binding
CarriedKey(key, old) ==
  /\ after.props[key] = old
  /\ key = "style" => after.styleProp = before.styleProp
  /\ \A i \in 1..Len(log) :
       /\ log[i].op \in {"eventAttach", "eventDetach"} => log[i].key # key
       /\ log[i].op \in {"addChild", "removeChild", "removeChildMissing"}
            => ~(/\ log[i].b = P
                 /\ log[i].a = IF key = "style" THEN before.styleProp
                               ELSE IF old.kind = "node" THEN old.ref
                               ELSE None)

SameKeysUpdate ==
  /\ Ran("updateProps")
  /\ ~before.reattachAll
  /\ AnimatedKeySet(before.props) = AnimatedKeySet(lastOp.arg)

ChangedKeys ==
  {key \in AnimatedKeySet(lastOp.arg) :
     NotDeepEqual(pre, before.props[key], lastOp.arg[key])}

\* C1: diff minimality. An updateProps(next) on an instance whose
\* reattach-all flag is clear, with the animated key set of next equal to the
\* previous one, replaces exactly the keys whose previous and next values are
\* not deep-equal (an event's cached _attachedEvent ignored); every other
\* animated key keeps its previous value object and sees no subscribe,
\* unsubscribe, event attach or event detach call.
C1_DiffMinimality ==
  SameKeysUpdate =>
    /\ world.err = None
    /\ Marked("replace") = ChangedKeys
    /\ Marked("nullify") = {}
    /\ \A key \in ChangedKeys :
         ReplacedKey(key, before.props[key], lastOp.arg[key])
    /\ \A key \in AnimatedKeySet(lastOp.arg) \ ChangedKeys :
         CarriedKey(key, before.props[key])

\* an update that replaces one key and carries another, the carried one an
\* event that is attached to the view and arrives as an equal new object
C1_Witness ==
  /\ SameKeysUpdate
  /\ before.view # None
  /\ "onScroll" \in AnimatedKeySet(lastOp.arg) \ ChangedKeys
  /\ before.props["onScroll"] = EventRef("e1")
  /\ lastOp.arg["onScroll"] = EventRef("e2")
  /\ pre.attachedEvent["e1"] # None
  /\ "opacity" \in ChangedKeys
  /\ "style" \in ChangedKeys

\* C2 as stated: an updateProps whose next bag has another animated key set
\* than the previous bag replaces every animated key of the next bag (said
\* of the updates that run to their end).
C2_ReattachesAllOnKeySetChange ==
  (/\ Ran("updateProps")
   /\ world.err = None
   /\ AnimatedKeySet(before.props) # AnimatedKeySet(lastOp.arg))
    => Marked("replace") = AnimatedKeySet(lastOp.arg)

\* C3 as stated: when __getValue() ran before __makeNative() made the
\* instance native, the next updateProps replaces every animated key of its
\* bag and clears the reattach-all flag; a __makeNative() before any
\* __getValue() does not set the flag.
C3_ReattachAllAfterLateNative ==
  /\ (Ran("makeNative") /\ ~before.isNative)
       => (after.reattachAll <=> before.firstValueReturned)
  /\ (Ran("updateProps") /\ before.reattachAll)
       => /\ world.err = None
          /\ Marked("replace") = AnimatedKeySet(lastOp.arg)
          /\ ~after.reattachAll

\* the native-capable event refs of a bag, as (event, key) pairs
NativeEvents(object) ==
  {<<object[key].ref, key>> : key \in
     {k \in DOMAIN object :
        IsAnimatedEvent(object[k]) /\ EvNative(object[k].ref)}}

\* C9: updateView(v) with v the view that is already bound does nothing: no
\* backend connect or disconnect, no event attach or detach, and the bound
\* view, the bag, the native flag and every subscription stay as they were.
C9_UpdateViewSameViewNoOp ==
  (Ran("updateView") /\ lastOp.arg = before.view)
    => /\ log = <<>>
       /\ world = pre

\* the same view is bound again while the instance is native and holds a
\* native-capable event: the calls a rebind would make are there to be saved
C9_Witness ==
  /\ Ran("updateView")
  /\ lastOp.arg = before.view
  /\ before.view = "vB"
  /\ before.isNative
  /\ NativeEvents(before.props) # {}
  /\ pre.conn # EmptyBag
  /\ pre.evb # EmptyBag

\* the positions in the log of the calls made by updateView
Positions(op) == {i \in 1..Len(log) : log[i].op = op}

Rebind == CHOOSE i \in Positions("rebind") : TRUE

\* C10: updateView(next) with next another view than the bound one detaches
\* the native event refs from the old view, then disconnects the composite
\* from the old view (when native and an old view exists), then rebinds,
\* then connects the composite to next (when native), then attaches the
\* event refs to next; nothing targets the old view after the rebind and
\* nothing targets the new view before it.
C10_UpdateViewOrder ==
  (Ran("updateView") /\ lastOp.arg # before.view)
    => /\ world.err = None
       /\ after.view = lastOp.arg
       /\ Cardinality(Positions("rebind")) = 1
       /\ \A i \in 1..Len(log) :
            log[i].op \in {"eventDetach", "disconnect", "rebind", "connect",
                           "eventAttach"}
       \* before the rebind: event detaches, then at most one disconnect,
       \* all of them on the old view
       /\ \A i \in Positions("eventDetach") :
            /\ i < Rebind
            /\ log[i].b = targetBefore
            /\ \A j \in Positions("disconnect") : i < j
       /\ \A i \in Positions("disconnect") :
            i < Rebind /\ log[i].a = P /\ log[i].b = before.view
       /\ Cardinality(Positions("disconnect"))
            = IF before.isNative /\ before.view # None THEN 1 ELSE 0
       /\ {<<log[i].a, log[i].key>> : i \in Positions("eventDetach")}
            = IF before.view # None THEN NativeEvents(before.props) ELSE {}
       \* after the rebind: at most one connect, then the event attaches,
       \* all of them on the new view
       /\ \A i \in Positions("connect") :
            /\ i > Rebind
            /\ log[i].a = P /\ log[i].b = lastOp.arg
            /\ \A j \in Positions("eventAttach") : i < j
       /\ Cardinality(Positions("connect"))
            = IF before.isNative /\ lastOp.arg # None THEN 1 ELSE 0
       /\ \A i \in Positions("eventAttach") :
            i > Rebind /\ log[i].b = ScrollableNode(lastOp.arg)
       /\ {<<log[i].a, log[i].key>> : i \in Positions("eventAttach")}
            = IF lastOp.arg # None THEN NativeEvents(before.props) ELSE {}
       /\ Len(log) = Cardinality(Positions("eventDetach"))
                     + Cardinality(Positions("disconnect")) + 1
                     + Cardinality(Positions("connect"))
                     + Cardinality(Positions("eventAttach"))

\* a rebind from one view to another of a native instance that holds a
\* native-capable event: all five steps happen
C10_Witness ==
  /\ Ran("updateView")
  /\ before.view = "vA"
  /\ lastOp.arg = "vB"
  /\ before.isNative
  /\ NativeEvents(before.props) # {}
  /\ Len(log) = 5

-----------------------------------------------------------------------------
(* Properties of the wrapper, stated on the state an operation leaves:     *)
(* lastOp holds the operation and the state it started from, world.log     *)
(* the calls it made.                                                      *)

\* the component and its AnimatedProps instance when the operation started
compBefore == lastOp.preComp
propsBefore == lastOp.pre.inst[compBefore.propsAnimated]

\* the number of calls of op the operation made
Count(op) == Cardinality(Positions(op))

\* the operation was a change of value that fired the change callback
Fired ==
  /\ lastOp.op = "setValue"
  /\ compBefore.propsAnimated \in Consumers(lastOp.pre, lastOp.arg[1])

\* the view exposes setNativeProps and the test-only override is off
DirectCapable ==
  HasSetNativeProps(compBefore.component) /\ ~compBefore.skipSetNativeProps

NativeModeError == "Attempting to run JS driven animation"

C6_FallbackWithoutCapability ==
  (/\ Fired
   /\ compBefore.component # None
   /\ ~HasSetNativeProps(compBefore.component))
    => /\ world.err = None
       /\ Count("setNativeProps") = 0
       /\ Count("forceUpdate") = 1

\* a firing on the view without setNativeProps, in each revision's case
C6_Witness ==
  /\ Fired
  /\ compBefore.component = "vC"
  /\ compBefore.variant = 2
  /\ Count("forceUpdate") = 1

\* the bag C7 expects: the animated value/style keys of the current bag,
\* each with the current value of its node
AnimatedOnly(w, p) ==
  LET props == w.inst[p].props
      inner == w.snode[w.inst[p].styleProp].style.inner
  IN [key \in {k \in DOMAIN props : k = "style" \/ props[k].kind = "node"}
        |-> IF key = "style"
            THEN Plain(IF inner.kind = "node"
                       THEN Static(w.vnode[inner.ref].value)
                       ELSE Undefined)
            ELSE Static(w.vnode[props[key].ref].value)]

Payloads == {log[i].b : i \in Positions("setNativeProps")}

\* C7: a firing that takes the direct-mutation path makes exactly one
\* setNativeProps call, on the bound view, and no re-render; the payload
\* has one entry per key of the current bag that holds an animated value or
\* the style (resolved through the cached composite), with the node's
\* current value, the one just set included, and no static or event key.
C7_DirectMutationPayload ==
  (Fired /\ Count("setNativeProps") > 0)
    => /\ Count("setNativeProps") = 1
       /\ Count("forceUpdate") = 0
       /\ \A i \in Positions("setNativeProps") :
            log[i].a = compBefore.component
       /\ Payloads = {AnimatedOnly(world, comp.propsAnimated)}
       /\ \A payload \in Payloads : \A key \in DOMAIN payload :
            /\ comp.props[key].kind \in {"node", "plain"}
            /\ (comp.props[key] = NodeRef(lastOp.arg[1])
                  => payload[key] = Static(lastOp.arg[2]))
            /\ (comp.props[key] = Plain(NodeRef(lastOp.arg[1]))
                  => payload[key] = Plain(Static(lastOp.arg[2])))

\* a direct mutation for a bag that also holds an event: the payload is the
\* new opacity alone
C7_Witness ==
  /\ Fired
  /\ "onScroll" \in DOMAIN comp.props
  /\ Payloads = {[opacity |-> Static(1)]}

\* the re-renders componentDidMount requests on its own account
MountRenders == IF compBefore.variant = 1 THEN 1 ELSE 0

\* C8: a change callback that fires before a view is bound makes no
\* setNativeProps call, requests no re-render and raises nothing, and leaves
\* the deferral flag set; the mount that follows runs the deferred effect
\* once, whatever the number of firings, and leaves the flag clear.
C8_DeferredUntilMount ==
  /\ (Fired /\ compBefore.component = None)
       => /\ world.err = None
          /\ Count("setNativeProps") + Count("forceUpdate") = 0
          /\ comp.invokeOnMount
  /\ (lastOp.op = "didMount" /\ world.err = None)
       => /\ ~comp.invokeOnMount
          /\ Count("setNativeProps") + Count("forceUpdate") - MountRenders
               = IF compBefore.invokeOnMount THEN 1 ELSE 0

-----------------------------------------------------------------------------
(* Properties of the engine: connections, detach, native mode, accessors   *)

\* the calls of op among the first i calls of the operation that name a, b
CallsUpTo(op, a, b, i) ==
  Cardinality({j \in Positions(op) : j <= i /\ log[j].a = a /\ log[j].b = b})

\* the number of connections of instance q to view when call i is issued
ConnectedBefore(q, view, i) ==
  CopiesIn(<<q, view>>, pre.conn)
    + CallsUpTo("connect", q, view, i - 1)
    - CallsUpTo("disconnect", q, view, i - 1)

Live == after.exists /\ after.attached /\ after.isNative /\ after.view # None

\* C11: the backend connections of the instance are paired. The instance is
\* connected once to its bound view when it is native, a view is bound and
\* it has not been detached, and to no view otherwise; every connect is
\* issued for a view that is not connected and every disconnect for a view
\* that is.
C11_ConnectionsPaired ==
  /\ BagToSet(world.conn) = IF Live THEN {<<P, after.view>>} ELSE {}
  /\ \A pair \in BagToSet(world.conn) : CopiesIn(pair, world.conn) = 1
  /\ \A i \in Positions("connect") :
       ConnectedBefore(log[i].a, log[i].b, i) = 0
  /\ \A i \in Positions("disconnect") :
       ConnectedBefore(log[i].a, log[i].b, i) = 1

\* a native instance moved from one view to another: one disconnect, one
\* connect, one connection left
C11_Witness ==
  /\ Ran("updateView")
  /\ before.isNative
  /\ before.view = "vA"
  /\ after.view = "vB"
  /\ Count("disconnect") = 1
  /\ Count("connect") = 1
  /\ BagToSet(world.conn) = {<<P, "vB">>}

\* the animated value and style nodes instance P subscribes to with props
Subscribed(props, styleProp) ==
  {props[k].ref : k \in {x \in DOMAIN props : x # "style"
                                               /\ props[x].kind = "node"}}
    \cup (IF "style" \in DOMAIN props THEN {styleProp} ELSE {})

\* C12: __detach() first disconnects the composite from the view (when
\* native and a view is bound), then detaches the native event refs from
\* the view, then removes the value and style subscriptions, then marks the
\* instance inert; no subscription is removed before the disconnect and the
\* event detaches are done.
C12_DetachOrder ==
  Ran("detach") =>
    /\ world.err = None
    /\ ~after.attached
    /\ \A i \in 1..Len(log) :
         log[i].op \in {"disconnect", "eventDetach", "removeChild",
                        "baseDetach"}
    /\ Count("disconnect")
         = IF before.isNative /\ before.view # None THEN 1 ELSE 0
    /\ {<<log[i].a, log[i].key>> : i \in Positions("eventDetach")}
         = IF before.view # None THEN NativeEvents(before.props) ELSE {}
    /\ {log[i].a : i \in {j \in Positions("removeChild") : log[j].b = P}}
         = Subscribed(before.props, before.styleProp)
    /\ Positions("baseDetach") = {Len(log)}
    /\ \A i \in Positions("disconnect") :
         \A j \in Positions("eventDetach") \cup Positions("removeChild") :
           i < j
    /\ \A i \in Positions("eventDetach") :
         \A j \in Positions("removeChild") : i < j

\* the detach of a native instance bound to a view, with a native event, an
\* animated value and a style
C12_Witness ==
  /\ Ran("detach")
  /\ Count("disconnect") = 1
  /\ Count("eventDetach") = 1
  /\ Count("removeChild") >= 2

-----------------------------------------------------------------------------
(* Properties of the wrapper: release at unmount                           *)

\* nothing is held: no consumer on any node, no event bound, no connection
Released(w) ==
  /\ \A n \in Nodes : BagToSet(w.vnode[n].children) = {}
  /\ \A c \in Styles : BagToSet(w.snode[c].children) = {}
  /\ BagToSet(w.evb) = {}
  /\ \A e \in Events : w.attachedEvent[e] = None
  /\ BagToSet(w.conn) = {}

\* C13: after the unmount of a mounted component, whatever prop updates,
\* view changes and switch to native mode came before, no value or style
\* node has an AnimatedProps instance of the component as a consumer, no
\* event ref is attached to a view and no backend connection is left.
C13_UnmountReleasesAll ==
  comp.phase = "unmounted" => world.err = None /\ Released(world)

\* the unmount of a native component that held subscriptions, a native
\* event and a connection
C13_Witness ==
  /\ lastOp.op = "unmount"
  /\ propsBefore.isNative
  /\ Count("disconnect") = 1
  /\ Count("eventDetach") >= 1
  /\ Count("removeChild") >= 1
  /\ Released(world)

-----------------------------------------------------------------------------
(* Properties of the engine: native mode and the value accessor            *)

\* C15: __makeNative() on an instance that is already native returns at
\* once: it makes no call (no backend connect, no node marked) and leaves
\* the instance, its reattach-all flag included, and the graph as they were.
C15_MakeNativeIdempotent ==
  (Ran("makeNative") /\ before.isNative)
    => /\ log = <<>>
       /\ world = pre

\* a second __makeNative on an instance bound to a view that has returned
\* its value and whose reattach-all flag is clear
C15_Witness ==
  /\ Ran("makeNative")
  /\ before.isNative
  /\ before.view # None
  /\ before.firstValueReturned
  /\ ~before.reattachAll
  /\ AnimatedKeySet(before.props) # {}

\* the bags __getValue() returned to render() for the current instance
Rendered ==
  {log[i].b : i \in {j \in Positions("getValue") :
                       log[j].a = comp.propsAnimated}}

currentProps == world.inst[comp.propsAnimated].props

\* key holds a native animated value node
NativeValueKey(key) ==
  currentProps[key].kind = "node" /\ world.vnode[currentProps[key].ref].isNative

\* key is the style and its composite is native
NativeStyleKey(key) ==
  key = "style" /\ world.snode[world.inst[comp.propsAnimated].styleProp].isNative

\* the value C16 expects for a key that is not native
Resolved(key) ==
  LET value == currentProps[key]
  IN CASE value.kind = "node" -> Static(world.vnode[value.ref].value)
       [] value.kind = "event" -> [kind |-> "handler", ref |-> value.ref]
       [] value.kind = "plain" /\ value.inner.kind = "node" ->
            IF world.vnode[value.inner.ref].isNative THEN Plain(Undefined)
            ELSE Plain(Static(world.vnode[value.inner.ref].value))
       [] OTHER -> value

\* C16 as stated: the key set of the bag __getValue() returns is all keys
\* of the current bag minus the keys bound to a native animated value or a
\* native animated style.
C16_OmitsNativeValueAndStyleKeys ==
  \A r \in Rendered :
    DOMAIN r = {key \in DOMAIN currentProps :
                  ~NativeValueKey(key) /\ ~NativeStyleKey(key)}

\* C16: the key set of the bag __getValue() returns is all keys of the
\* current bag minus the keys bound to a native animated value; a
\* non-native value key holds the node's current value, an event key its
\* handler, a static key its value, and the style key, native or not, the
\* style resolved through the composite without its native entries.
C16_GetValueBag ==
  \A r \in Rendered :
    /\ DOMAIN r = {key \in DOMAIN currentProps : ~NativeValueKey(key)}
    /\ \A key \in DOMAIN r : r[key] = Resolved(key)

\* a render of a native instance with a style, a native value and an event
\* after the value changed
C16_Witness ==
  /\ lastOp.op = "receiveProps"
  /\ world.inst[comp.propsAnimated].isNative
  /\ \E r \in Rendered :
       /\ DOMAIN currentProps = {"style", "opacity"}
       /\ NativeValueKey("opacity")
       /\ DOMAIN r = {"style"}

-----------------------------------------------------------------------------
(* Properties of the wrapper: the order of the unmount                     *)

\* C18: at unmount every native event binding of the component is detached
\* before the AnimatedProps instance releases a value or style
\* subscription, and nothing is raised.
C18_EventsBeforeSubscriptions ==
  lastOp.op = "unmount" =>
    /\ world.err = None
    /\ \A i \in Positions("eventDetach") :
         \A j \in Positions("removeChild") : i < j


-----------------------------------------------------------------------------
(* The engine among other consumers: the instance is constructed in a      *)
(* graph that others subscribe to, with a style that is a plain object or  *)
(* an AnimatedStyle of the caller                                          *)

\* some other consumer subscribes to the value node n
WithConsumer(w, n) ==
  [w EXCEPT !.vnode[n].children = AddOne(@, "other")]

\* some other consumer subscribes to the caller's AnimatedStyle, which is
\* therefore attached to its value
WithStyleConsumer(w) ==
  [w EXCEPT !.snode["s1"].children = AddOne(@, "other"),
            !.vnode["n2"].children = AddOne(@, "s1")]

PriorWorlds ==
  {EmptyWorld, WithConsumer(EmptyWorld, "n1"), WithStyleConsumer(EmptyWorld),
   WithStyleConsumer(WithConsumer(EmptyWorld, "n1"))}

RefValuesFor(key) ==
  CASE key = "style" -> {Plain(NodeRef("n1")), StyleRef("s1")}
    [] key = "opacity" -> {NodeRef(n) : n \in Nodes}
    [] OTHER -> {EventRef("e1")}

RefBags ==
  {bag \in UNION {[ks -> UNION {RefValuesFor(k) : k \in ks}] :
                    ks \in SUBSET KeySet} :
     \A k \in DOMAIN bag : bag[k] \in RefValuesFor(k)}

InitRefs ==
  /\ world \in PriorWorlds
  /\ comp = NoComponent
  /\ lastOp = Idle

\* new AnimatedProps(props, callback)
Construct ==
  /\ lastOp = Idle
  /\ ~world.inst["P1"].exists
  /\ \E props \in RefBags :
       /\ world' = Collect(NewAnimatedProps(Begin(world), "P1", props))
       /\ lastOp' = Op("new", "P1", props, world, comp)
  /\ UNCHANGED comp

\* __detach() right after the construction; the record keeps the world the
\* construction started from
DetachFresh ==
  /\ lastOp.op = "new"
  /\ world.err = None
  /\ world' = Collect(__detach(Begin(world), "P1"))
  /\ lastOp' = [lastOp EXCEPT !.op = "newDetach"]
  /\ UNCHANGED comp

\* __attach() on the attached instance
AttachAgain ==
  /\ Usable("P1")
  /\ world' = Collect(__attach(world, "P1"))
  /\ lastOp' = Op("attach", "P1", None, world, comp)
  /\ UNCHANGED comp

UpdatePropsRefs ==
  /\ Usable("P1")
  /\ \E nextProps \in RefBags :
       /\ world' = Collect(updateProps(world, "P1", nextProps))
       /\ lastOp' = Op("updateProps", "P1", nextProps, world, comp)
  /\ UNCHANGED comp

\* the second __attach() is the last operation that is followed
ReturnUnlessAttach ==
  /\ lastOp.op # "attach"
  /\ Return

NextRefs ==
  \/ Construct
  \/ DetachFresh
  \/ AttachAgain
  \/ UpdatePropsRefs
  \/ UpdateView
  \/ MakeNative
  \/ GetValue
  \/ Detach
  \/ ReturnUnlessAttach

SpecRefs == InitRefs /\ [][NextRefs]_vars


\* the number of consumer edges into every node of the dependency graph
EdgeCounts(w) ==
  [x \in Nodes \cup Styles |->
     IF x \in Nodes THEN Total(w.vnode[x].children)
     ELSE Total(w.snode[x].children)]

\* C14: constructing an AnimatedProps instance (which attaches it) and then
\* detaching it leaves every node of the dependency graph with the number of
\* consumer edges it had before the construction, for every property bag.
C14_AttachDetachRestoresEdges ==
  lastOp.op = "newDetach" =>
    /\ world.err = None
    /\ EdgeCounts(world) = EdgeCounts(pre)

\* a bag with the caller's AnimatedStyle and a value that both have other
\* consumers was attached and detached
C14_Witness ==
  /\ lastOp.op = "newDetach"
  /\ Get(lastOp.arg, "style") = StyleRef("s1")
  /\ Get(lastOp.arg, "opacity") = NodeRef("n1")
  /\ Total(pre.snode["s1"].children) = 1
  /\ Total(pre.vnode["n1"].children) = 1
  /\ Has(Call("removeChild", "s1", P, None))
  /\ EdgeCounts(world) = EdgeCounts(pre)


\* C17: while the instance is attached and its bag has a `style` key, one
\* style composite is cached and the instance is subscribed to it exactly
\* once, whether the style is a plain object or an AnimatedStyle; with no
\* `style` key, or after detach, no composite is cached.
C17_StyleNormalized ==
  (world.inst[P].exists /\ world.err = None) =>
    IF world.inst[P].attached /\ "style" \in DOMAIN world.inst[P].props
    THEN /\ world.inst[P].styleProp # None
         /\ CopiesIn(P, world.snode[world.inst[P].styleProp].children) = 1
    ELSE world.inst[P].styleProp = None


\* the subscriptions of the instance are single: no value node and no style
\* composite holds it twice
SingleSubscriptions(w) ==
  /\ \A n \in Nodes : CopiesIn(P, w.vnode[n].children) <= 1
  /\ \A c \in Styles : CopiesIn(P, w.snode[c].children) <= 1

\* C19: a second __attach() on an attached instance raises a fatal invariant
\* violation, for every property bag, and leaves no node subscribed twice by
\* the instance.
C19_SecondAttachIsFatal ==
  Ran("attach") =>
    /\ world.err # None
    /\ SingleSubscriptions(world)


\* the invariant violations about a missing style composite
StylePropErrors ==
  {"Expected style prop", "Expected style prop to detach",
   "Expected style prop to make native"}

\* C20: on an instance that was constructed and not detached, no sequence
\* of updateProps, updateView, __makeNative and value-accessor calls, with
\* any property bags (style absent, a plain object or an AnimatedStyle),
\* raises a missing-style-composite invariant violation.
C20_NoMissingStyleComposite ==
  (lastOp.op \in {"new", "updateProps", "updateView", "makeNative",
                  "getValue"})
    => world.err \notin StylePropErrors


-----------------------------------------------------------------------------
(* The order of the calls inside updateProps                               *)

\* the positions where updateProps turns to a key
KeyMarks == {i \in 1..Len(log) : log[i].op \in {"replace", "reuse", "nullify"}}

\* the calls made for the key taken up at position i
Segment(i) ==
  {j \in (i + 1)..Len(log) : \A m \in KeyMarks : m > i => j < m}

AttachOps == {"addChild", "makeNative", "eventAttach"}
DetachOps == {"removeChild", "removeChildMissing", "eventDetach"}

\* the calls of the segment at i that bind or release the instance itself
BindsIn(i) ==
  {j \in Segment(i) : \/ log[j].op = "addChild" /\ log[j].b = P
                      \/ log[j].op = "eventAttach"}
ReleasesIn(i) ==
  {j \in Segment(i) : \/ log[j].op = "removeChild" /\ log[j].b = P
                      \/ log[j].op = "eventDetach"}

\* the binding calls of the segment at i are those of its key: the node or
\* event of the key's new value is bound, that of its old value is released
OwnCalls(i) ==
  LET key == log[i].key
      old == Get(before.props, key)
      new == Get(lastOp.arg, key)
  IN /\ \A j \in BindsIn(i) :
          IF log[j].op = "eventAttach"
          THEN log[j].key = key /\ new = EventRef(log[j].a)
          ELSE IF key = "style" THEN log[j].a = after.styleProp
          ELSE new = NodeRef(log[j].a)
     /\ \A j \in ReleasesIn(i) :
          IF log[j].op = "eventDetach"
          THEN log[j].key = key /\ old = EventRef(log[j].a)
          ELSE IF key = "style" THEN log[j].a = before.styleProp
          ELSE old = NodeRef(log[j].a)

\* C21 (as stated): every changed key is replaced completely before the
\* next key is taken up, and within the key the old binding is detached
\* before the new one is attached.
C21_DetachThenAttachPerKey ==
  (Ran("updateProps") /\ world.err = None) =>
    \A i \in Positions("replace") :
      /\ OwnCalls(i)
      /\ \A j, k \in Segment(i) :
           (log[j].op \in DetachOps /\ log[k].op \in AttachOps) => j < k

\* C21 (amended): every changed key is replaced completely before the next
\* key is taken up, and within the key the new binding is attached (and made
\* native) before the old one is detached.
C21_AttachThenDetachPerKey ==
  (Ran("updateProps") /\ world.err = None) =>
    \A i \in Positions("replace") :
      /\ OwnCalls(i)
      /\ \A j, k \in Segment(i) :
           (log[j].op \in AttachOps /\ log[k].op \in DetachOps) => j < k

\* two keys were replaced in one updateProps, each with a bind and a release
C21_Witness ==
  /\ Ran("updateProps")
  /\ world.err = None
  /\ \E i, j \in Positions("replace") :
       /\ i < j
       /\ BindsIn(i) # {} /\ ReleasesIn(i) # {}
       /\ BindsIn(j) # {} /\ ReleasesIn(j) # {}


-----------------------------------------------------------------------------
(* Consumer counts at the intermediate steps of an operation               *)

\* the number of consumers of the value node n after the first j calls
CountAt(n, j) ==
  Total(pre.vnode[n].children)
  + Cardinality({k \in 1..j : log[k].op = "addChild" /\ log[k].a = n})
  - Cardinality({k \in 1..j : log[k].op = "removeChild" /\ log[k].a = n})

\* the value nodes a property value refers to
ValueNodesOf(value) ==
  IF value.kind = "node" THEN {value.ref} ELSE StyleInner(value)

\* the value nodes a property bag refers to
ValueNodesIn(props) ==
  UNION {ValueNodesOf(props[key]) : key \in DOMAIN props}

\* the wrapper replaced its AnimatedProps instance in the operation
InstanceReplaced ==
  /\ lastOp.op = "receiveProps"
  /\ compBefore.propsAnimated # comp.propsAnimated

\* a key was replaced whose old and new value refer to the node n
KeyReplacedOn(i, n) ==
  /\ i \in Positions("replace")
  /\ n \in ValueNodesOf(Get(propsBefore.props, log[i].key))
  /\ n \in ValueNodesOf(Get(lastOp.arg[1], log[i].key))

\* C22: when a binding is replaced - one key in updateProps, the style
\* composite, or the whole AnimatedProps instance in the wrapper - a value
\* node that both the old and the new binding refer to has at least one
\* consumer at every intermediate step.
C22_NoTransientZero ==
  (lastOp.op = "receiveProps" /\ world.err = None) =>
    \A n \in Nodes :
      /\ (InstanceReplaced /\ n \in ValueNodesIn(propsBefore.props)
                           /\ n \in ValueNodesIn(lastOp.arg[1]))
           => \A j \in 0..Len(log) : CountAt(n, j) > 0
      /\ \A i \in 1..Len(log) :
           KeyReplacedOn(i, n) => \A j \in Segment(i) : CountAt(n, j) > 0

\* the whole instance was replaced with a node and a style value shared by
\* the old and the new bag
C22_Witness ==
  /\ InstanceReplaced
  /\ world.err = None
  /\ Get(propsBefore.props, "style") = Plain(NodeRef("n1"))
  /\ Get(lastOp.arg[1], "style") = Plain(NodeRef("n1"))
  /\ Get(propsBefore.props, "opacity") # Get(lastOp.arg[1], "opacity")
  /\ \E k \in Positions("removeChild") : log[k].a = "n1"
  /\ \A j \in 0..Len(log) : CountAt("n1", j) > 0

\* one key was replaced by updateProps with the same node as old and new
\* value
C22_WitnessKey ==
  /\ lastOp.op = "receiveProps"
  /\ world.err = None
  /\ \E i \in 1..Len(log), n \in Nodes :
       /\ KeyReplacedOn(i, n)
       /\ \E j, k \in Segment(i) :
            /\ log[j].op = "addChild" /\ log[j].a = n
            /\ log[k].op = "removeChild" /\ log[k].a = n


-----------------------------------------------------------------------------
(* Removed keys and the consistency of the subscriptions                   *)

\* the animated keys of the previous bag that the next bag does not have
RemovedKeys == AnimatedKeySet(before.props) \ AnimatedKeySet(lastOp.arg)

\* the number of keys of the bag props bound to the value node n
KeysBoundTo(props, n) ==
  Cardinality({key \in DOMAIN props : key # "style" /\ props[key] = NodeRef(n)})

\* the segment at i only detaches the binding of its key
DetachesOnly(i) ==
  LET key == log[i].key
      old == before.props[key]
  IN /\ \A j \in Segment(i) : log[j].op \notin AttachOps
     /\ OwnCalls(i)
     /\ IF key = "style"
        THEN /\ after.styleProp = None
             /\ \E j \in Segment(i) :
                  log[j] = Call("removeChild", before.styleProp, P, None)
        ELSE old.kind = "node" =>
               \E j \in Segment(i) :
                 log[j] = Call("removeChild", old.ref, P, None)
     /\ (before.view # None /\ old.kind = "event" /\ EvNative(old.ref)) =>
          \E j \in Segment(i) :
            log[j] = Call("eventDetach", old.ref, targetBefore, key)

\* C23: for every animated key of the previous bag that is not an animated
\* key of the next bag, updateProps only detaches: the subscription to the
\* old value or style node is removed (the cached composite cleared), an old
\* native event ref is detached from the bound view, nothing is attached for
\* the key, and afterwards the instance holds no subscription that stems
\* from a removed key.
C23_RemovedKeysDetachOnly ==
  (Ran("updateProps") /\ world.err = None) =>
    /\ \A key \in RemovedKeys :
         /\ Cardinality({i \in Positions("nullify") : log[i].key = key}) = 1
         /\ \A i \in Positions("nullify") : log[i].key = key => DetachesOnly(i)
    /\ \A i \in Positions("nullify") : log[i].key \in RemovedKeys
    /\ \A n \in Nodes :
         CopiesIn(P, world.vnode[n].children) = KeysBoundTo(after.props, n)
    /\ \A c \in Styles :
         CopiesIn(P, world.snode[c].children) =
           IF c = after.styleProp THEN 1 ELSE 0

\* a style, a value and a native event bound to a view were removed at once
C23_Witness ==
  /\ Ran("updateProps")
  /\ world.err = None
  /\ before.view # None
  /\ RemovedKeys = {"style", "opacity", "onScroll"}
  /\ before.props["style"] = Plain(NodeRef("n1"))
  /\ Cardinality(Positions("removeChild")) = 3
  /\ Cardinality(Positions("eventDetach")) = 1
  /\ after.styleProp = None


-----------------------------------------------------------------------------
(* Events in the comparisons                                               *)

\* two event values that differ at most in their cached _attachedEvent
SameEventButAttachment(a, b) ==
  /\ a.kind = "event" /\ b.kind = "event"
  /\ EvMapping(a.ref) = EvMapping(b.ref)
  /\ EvNative(a.ref) = EvNative(b.ref)

\* the keys whose event arrives as an equal event, attached or not
EqualEventKeys ==
  {key \in DOMAIN before.props \cap DOMAIN lastOp.arg :
     SameEventButAttachment(before.props[key], lastOp.arg[key])}

\* C24: the cached attachment of an event ref takes no part in the
\* comparison. An event that is attached to the view and then arrives in a
\* property update as an event equal but for `_attachedEvent` is unchanged
\* for animatedDiff and for the wrapper's animatedEventDiff, before and
\* after the update; updateProps keeps the old event object and makes no
\* event attach or detach call for the key; and the wrapper's event-change
\* check reports no change when all event keys are such.
C24_AttachmentNotCompared ==
  (Ran("updateProps") /\ world.err = None /\ ~before.reattachAll) =>
    /\ \A key \in EqualEventKeys :
         /\ \A w \in {pre, world} :
              /\ ~animatedDiff(w, before.props[key], lastOp.arg[key])
              /\ ~animatedEventDiff(w, before.props[key], lastOp.arg[key])
         /\ after.props[key] = before.props[key]
         /\ \A j \in 1..Len(log) :
              log[j].op \in {"eventAttach", "eventDetach"} => log[j].key # key
    /\ (EqualEventKeys = AnimatedKeySet(before.props)
        /\ EqualEventKeys = AnimatedKeySet(lastOp.arg))
         => \A w \in {pre, world} :
              ~animatedEventPropsChanged(w, before.props, lastOp.arg)

\* the only animated key is an event attached to the bound view; it arrives
\* as another, equal event object that was never attached
C24_Witness ==
  /\ Ran("updateProps")
  /\ world.err = None
  /\ ~before.reattachAll
  /\ before.view # None
  /\ AnimatedKeySet(before.props) = {"onScroll"}
  /\ AnimatedKeySet(lastOp.arg) = {"onScroll"}
  /\ before.props["onScroll"] = EventRef("e1")
  /\ lastOp.arg["onScroll"] = EventRef("e2")
  /\ pre.attachedEvent["e1"] = <<targetBefore, "onScroll">>
  /\ pre.attachedEvent["e2"] = None
  /\ world.evb = pre.evb


-----------------------------------------------------------------------------
(* Native event bindings over a prop update of the wrapper                 *)

\* the props and the view of the prop update that ran last
nextPropsOfUpdate == lastOp.arg[1]
viewOfUpdate == lastOp.arg[2]

ViewChanged == viewOfUpdate # compBefore.component

EventKeysChanged ==
  animatedEventPropsChanged(pre, compBefore.props, nextPropsOfUpdate)

\* the bindings the native-capable event refs of props make on view
NativeBindings(props, view) ==
  {<<ScrollableNode(view), key, props[key].ref>> :
     key \in {k \in DOMAIN props :
                IsAnimatedEvent(props[k]) /\ EvNative(props[k].ref)}}

\* C25: on a prop update of a mounted component in which the view handle
\* changed or an event-relevant key changed, the wrapper detaches all native
\* event bindings it had and then attaches the native-capable event refs of
\* the current props to the event target of the current view; every detach
\* precedes every attach, and afterwards each such event ref is attached
\* exactly once.
C25_EventsReattached ==
  (lastOp.op = "receiveProps" /\ world.err = None
   /\ (ViewChanged \/ EventKeysChanged)) =>
    /\ \A b \in BagToSet(pre.evb) : Has(Call("eventDetach", b[3], b[1], b[2]))
    /\ \A j \in Positions("eventAttach") :
         <<log[j].b, log[j].key, log[j].a>>
           \in NativeBindings(nextPropsOfUpdate, viewOfUpdate)
    /\ \A j \in Positions("eventDetach") :
         \A k \in Positions("eventAttach") : j < k
    /\ world.evb = SetToBag(NativeBindings(nextPropsOfUpdate, viewOfUpdate))


-----------------------------------------------------------------------------
(* createAnimatedComponent with a caller that passes `collapsable`         *)

InitRender ==
  /\ world = EmptyWorld
  /\ lastOp = Idle
  /\ \E variant \in {1, 2}, props \in RenderedBags,
        value \in CollapsableValues :
       comp = [Constructed(variant, props, FALSE)
                 EXCEPT !.collapsable = value]

\* a render by the parent that changes nothing but `collapsable`
ReceiveCollapsable ==
  /\ Ready({"mounted"})
  /\ \E value \in CollapsableValues \ {comp.collapsable} :
       LET st == St(world, comp)
           st1 == IF comp.variant = 1
                  THEN componentWillReceiveProps(st, comp.props)
                  ELSE componentWillReceiveProps2(st, comp.props)
           Rendered1(s1) == render([s1 EXCEPT !.c.collapsable = value])
           st3 == IF comp.variant = 1
                  THEN componentDidUpdate(Do(st1, Rendered1), comp.props)
                  ELSE componentDidUpdate2(Do(st1, Rendered1), comp.props)
       IN Becomes(st3, "mounted", "receiveCollapsable", value)

NextRender ==
  \/ WillMount
  \/ DidMount
  \/ ReceiveCollapsable
  \/ StartNative
  \/ Unmount
  \/ Return

SpecRender == InitRender /\ [][NextRender]_vars

\* the elements the operation rendered: the instance and the collapsable
\* handed to the wrapped component
Elements == {i \in 1..Len(log) : log[i].op = "element"}

\* whether the instance p was native during the operation (__makeNative is
\* an operation of its own)
NativeDuring(p) ==
  IF pre.inst[p].exists THEN pre.inst[p].isNative ELSE world.inst[p].isNative

\* C26: whenever the property set is in native mode a render passes
\* collapsable=false to the wrapped component, whatever the caller's
\* `collapsable` is; when it is not native the caller's value is passed on
\* unchanged.
C26_CollapsableForcedWhenNative ==
  \A i \in Elements :
    log[i].b = IF NativeDuring(log[i].a) THEN "false" ELSE comp.collapsable

\* a native component was rendered for a caller that asks for
\* collapsable=true
C26_Witness ==
  /\ lastOp.op = "receiveCollapsable"
  /\ world.err = None
  /\ comp.collapsable = "true"
  /\ world.inst[comp.propsAnimated].isNative
  /\ \E i \in Elements : log[i].a = comp.propsAnimated /\ log[i].b = "false"

\* a component that is not native was rendered for a caller that asks for
\* collapsable=true
C26_WitnessPassThrough ==
  /\ lastOp.op = "receiveCollapsable"
  /\ world.err = None
  /\ comp.collapsable = "true"
  /\ ~world.inst[comp.propsAnimated].isNative
  /\ \E i \in Elements : log[i].a = comp.propsAnimated /\ log[i].b = "true"


-----------------------------------------------------------------------------
(* The subscriptions of the instance against its current bag              *)

\* the style node the `style` key of the instance is bound to, if any
StyleNodeOf(w) ==
  IF "style" \notin DOMAIN w.inst[P].props THEN None
  ELSE IF IsAnimatedStyle(w.inst[P].props["style"])
  THEN w.inst[P].props["style"].ref
  ELSE w.inst[P].styleProp

\* C27: after the construction and after every completed updateProps (one
\* under the reattach-all flag with the same node as old and new value
\* included), the instance is registered on every value node once per key
\* of the current bag bound to it, once on the style node of its `style`
\* key, and on no other node.
C27_SubscriptionsMatchBag ==
  ((Ran("new") \/ Ran("updateProps")) /\ world.err = None) =>
    /\ \A n \in Nodes :
         CopiesIn(P, world.vnode[n].children) = KeysBoundTo(after.props, n)
    /\ \A c \in Styles :
         CopiesIn(P, world.snode[c].children) =
           IF c = StyleNodeOf(world) THEN 1 ELSE 0
    /\ "style" \in DOMAIN after.props => StyleNodeOf(world) # None

\* a reattach-all update replaced a value key and a plain style that keep
\* the node they had
C27_Witness ==
  /\ Ran("updateProps")
  /\ world.err = None
  /\ before.reattachAll
  /\ Get(before.props, "opacity") = NodeRef("n1")
  /\ Get(after.props, "opacity") = NodeRef("n1")
  /\ Get(before.props, "style") = Plain(NodeRef("n1"))
  /\ Get(after.props, "style") = Plain(NodeRef("n1"))
  /\ {"style", "opacity"} \subseteq Marked("replace")
  /\ CopiesIn(P, world.vnode["n1"].children) = 1


\* C28: after any sequence of updateView, updateProps (a reattach-all update
\* that keeps the event object of a key included) and __makeNative on an
\* attached instance, the event bindings are exactly those of the
\* native-capable event refs of the current bag on the event target of the
\* bound view, each once under its key; with no view bound, or after
\* __detach, there is none.
C28_EventBindingsMatchBag ==
  world.err = None =>
    world.evb = IF after.attached /\ after.view # None
                THEN SetToBag(NativeBindings(after.props, after.view))
                ELSE EmptyBag

\* a reattach-all update on a bound view kept the event object of its key
C28_Witness ==
  /\ Ran("updateProps")
  /\ world.err = None
  /\ before.reattachAll
  /\ before.view # None
  /\ Get(before.props, "onScroll") = EventRef("e1")
  /\ Get(after.props, "onScroll") = EventRef("e1")
  /\ Has(Call("eventAttach", "e1", targetBefore, "onScroll"))
  /\ Has(Call("eventDetach", "e1", targetBefore, "onScroll"))
  /\ CopiesIn(<<targetBefore, "onScroll", "e1">>, world.evb) = 1


\* C29: a prop update of a mounted component in which the rendered view
\* handle did not change and no event-relevant key changed makes no event
\* attach or detach call and no backend connect or disconnect call.
C29_QuietUpdate ==
  (lastOp.op = "receiveProps" /\ world.err = None
   /\ ~ViewChanged /\ ~EventKeysChanged) =>
    /\ Count("eventAttach") = 0
    /\ Count("eventDetach") = 0
    /\ Count("connect") = 0
    /\ Count("disconnect") = 0


-----------------------------------------------------------------------------
(* Native mode                                                             *)

\* every value and style node the bag of the instance is bound to is native
BoundNodesNative(w) ==
  LET props == w.inst[P].props
  IN /\ \A key \in DOMAIN props \ {"style"} :
          props[key].kind = "node" => w.vnode[props[key].ref].isNative
     /\ "style" \in DOMAIN props =>
          /\ w.inst[P].styleProp # None
          /\ w.snode[w.inst[P].styleProp].isNative
          /\ \A n \in StyleInner(w.snode[w.inst[P].styleProp].style) :
               w.vnode[n].isNative

\* C30: once the instance is native, after __makeNative and after every
\* later updateProps, every value and style node bound in the current bag
\* is marked native, the nodes attached by that update and the current
\* style composite included; the instance never leaves native mode.
C30_NativeClosure ==
  /\ (world.err = None /\ after.isNative /\ after.attached)
       => BoundNodesNative(world)
  /\ (lastOp # Idle /\ before.isNative) => after.isNative

\* an update of a native instance bound a value node and a style composite
\* that were not native before
C30_Witness ==
  /\ Ran("updateProps")
  /\ world.err = None
  /\ before.isNative
  /\ Get(after.props, "opacity") = NodeRef("n2")
  /\ ~pre.vnode["n2"].isNative
  /\ Get(after.props, "style") = Plain(NodeRef("n1"))
  /\ after.styleProp # before.styleProp
  /\ ~pre.vnode["n1"].isNative
  /\ BoundNodesNative(world)

\* ======================================================================
\* ReactScrollView (src/unnamed/part_001)
\*
\* In the specifications of this section `world` holds the fields of one
\* ReactScrollView, `comp` holds the UI thread around it (the gesture being
\* dispatched, the runnables posted with postOnAnimationDelayed, the clock)
\* and `lastOp` the last call made on the view.
\* ======================================================================

\* private static final int INVALID_POINTER = -1
INVALID_POINTER == -1

\* getHeight() - getPaddingBottom() - getPaddingTop() of the scroll view
ViewportHeight == 2

\* the y coordinates a MotionEvent carries
MaxTouchY == 2

\* the drag events recorded before the run is cut off
MaxDragEvents == 4

NullView == [null |-> TRUE, height |-> 0]
ContentView(h) == [null |-> FALSE, height |-> h]

\* The fields of a ReactScrollView after construction (lines 56-74) and the
\* scroll position it inherits from View.
NewScrollView(scroller, content) ==
  [ mDoneFlinging |-> FALSE,
    mDragging |-> FALSE,
    mFlinging |-> FALSE,
    mScrollEnabled |-> TRUE,
    mSendMomentumEvents |-> FALSE,
    mContentView |-> content,
    mBouncesTop |-> TRUE,
    mBouncesBottom |-> TRUE,
    mActivePointerId |-> INVALID_POINTER,
    mLastMotionY |-> 0,
    mScroller |-> scroller,
    scrollX |-> 0,
    scrollY |-> 0,
    emitted |-> << >> ]

setSendMomentumEvents(sv, sendMomentumEvents) ==
  [sv EXCEPT !.mSendMomentumEvents = sendMomentumEvents]

setScrollEnabled(sv, scrollEnabled) ==
  [sv EXCEPT !.mScrollEnabled = scrollEnabled]

setBouncesTop(sv, bounces) ==
  [sv EXCEPT !.mBouncesTop = bounces]

setBouncesBottom(sv, bounces) ==
  [sv EXCEPT !.mBouncesBottom = bounces]

\* ReactScrollViewHelper.emitScroll...Event: the event reaches JavaScript
emit(sv, event) ==
  [sv EXCEPT !.emitted = Append(@, event)]

Max(a, b) == IF a >= b THEN a ELSE b
Min(a, b) == IF a <= b THEN a ELSE b

\* getMaxScrollY without the Math.max(0, ...) floor
getMaxScrollY_withoutFloor(sv) ==
  sv.mContentView.height - ViewportHeight

getMaxScrollY(sv) ==
  LET contentHeight == sv.mContentView.height
      viewportHeight == ViewportHeight
  IN  Max(0, contentHeight - viewportHeight)

\* View.canScrollVertically: offset is the scroll position, range the
\* scrollable distance; no child gives a range of 0
canScrollVertically(sv, direction) ==
  LET offset == sv.scrollY
      range == IF sv.mContentView.null THEN 0 ELSE getMaxScrollY(sv)
  IN  IF range = 0 THEN FALSE
      ELSE IF direction < 0 THEN offset > 0
      ELSE offset < range - 1

\* View.scrollTo(x, y)
scrollTo(sv, x, y) ==
  [sv EXCEPT !.scrollX = x, !.scrollY = y]

\* NestedScrollView.scrollBy(0, dy): scrollTo with the position kept inside
\* the content
scrollBy(sv, dy) ==
  IF sv.mContentView.null THEN sv
  ELSE scrollTo(sv, sv.scrollX, Max(0, Min(sv.scrollY + dy, getMaxScrollY(sv))))

\* A MotionEvent: its action, the y of its pointer, and whether
\* findPointerIndex finds the pointer recorded at ACTION_DOWN
MotionEvent(action, y, found) == [action |-> action, y |-> y, found |-> found]

\* lines 202-236 of onInterceptTouchEvent: TRUE when the bounce check
\* returns false before super.onInterceptTouchEvent is asked
refusesMove(sv, ev) ==
  /\ (~sv.mBouncesTop /\ ~canScrollVertically(sv, -1))
       \/ (~sv.mBouncesBottom /\ ~canScrollVertically(sv, 1))
  /\ ev.action = "ACTION_MOVE"
  /\ sv.mActivePointerId # INVALID_POINTER
  /\ ev.found
  /\ (~canScrollVertically(sv, -1) /\ ev.y > sv.mLastMotionY)
       \/ (~canScrollVertically(sv, 1) /\ ev.y < sv.mLastMotionY)

\* onInterceptTouchEvent(ev); superIntercepts is what
\* super.onInterceptTouchEvent(ev) returns when it is asked.
\* The result is the view after the call and the value returned.
onInterceptTouchEvent(sv, ev, superIntercepts) ==
  IF ~sv.mScrollEnabled THEN [sv |-> sv, ret |-> FALSE, asked |-> FALSE]
  ELSE
    LET edge == (~sv.mBouncesTop /\ ~canScrollVertically(sv, -1))
                  \/ (~sv.mBouncesBottom /\ ~canScrollVertically(sv, 1))
        sv1 == IF edge /\ ev.action = "ACTION_DOWN"
               THEN [sv EXCEPT !.mLastMotionY = ev.y, !.mActivePointerId = 0]
               ELSE sv
    IN  IF refusesMove(sv, ev) THEN [sv |-> sv, ret |-> FALSE, asked |-> FALSE]
        ELSE IF superIntercepts
        THEN [sv |-> [emit(sv1, "scrollBeginDrag") EXCEPT !.mDragging = TRUE],
              ret |-> TRUE, asked |-> TRUE]
        ELSE [sv |-> sv1, ret |-> FALSE, asked |-> TRUE]

\* the Runnable of onTouchEvent (lines 260-285)
endDragRunnable(sv) ==
  [emit(sv, "scrollEndDrag") EXCEPT !.mDragging = FALSE]

\* onTouchEvent(ev), dy being the scroll super.onTouchEvent(ev) makes;
\* posted tells whether the Runnable was posted rather than run
postsEndDrag(sv, ev) ==
  sv.mScrollEnabled /\ ev.action = "ACTION_UP" /\ sv.mDragging /\ sv.mScroller

onTouchEvent(sv, ev, dy) ==
  IF ~sv.mScrollEnabled THEN sv
  ELSE
    LET sv1 == IF ev.action = "ACTION_UP" /\ sv.mDragging /\ ~sv.mScroller
               THEN endDragRunnable(sv)
               ELSE sv
    IN  scrollBy(sv1, dy)

onStopNestedScroll(sv) ==
  IF sv.mDragging
  THEN [emit(sv, "scrollEndDrag") EXCEPT !.mDragging = FALSE]
  ELSE sv

\* onNestedPreScroll(child, dx, dy, consumed): childTop is childBounds.top
\* in the coordinates of this view, childScrollY is child.getScrollY()
onNestedPreScroll(sv, childTop, childScrollY, dy) ==
  LET parentAtBottom == ~canScrollVertically(sv, 1)
      childAtTop == (childTop = sv.scrollY)
      childConsumes == (parentAtBottom \/ childAtTop) /\ (dy > 0 \/ childScrollY > 0)
  IN  IF childConsumes
      THEN IF sv.mDragging
           THEN [emit(sv, "scrollEndDrag") EXCEPT !.mDragging = FALSE]
           ELSE sv
      ELSE scrollBy(IF ~sv.mDragging
                    THEN [emit(sv, "scrollBeginDrag") EXCEPT !.mDragging = TRUE]
                    ELSE sv, dy)

onChildViewAdded(sv, child) ==
  [sv EXCEPT !.mContentView = child]

onChildViewRemoved(sv) ==
  [sv EXCEPT !.mContentView = NullView]

onLayoutChange(sv) ==
  IF sv.mContentView.null THEN sv
  ELSE
    LET currentScrollY == sv.scrollY
        maxScrollY == getMaxScrollY(sv)
    IN  IF currentScrollY > maxScrollY
        THEN scrollTo(sv, sv.scrollX, maxScrollY)
        ELSE sv

\* ----------------------------------------------------------------------
\* Touch dispatch around a ReactScrollView.
\*
\* comp.touch tells where the gesture in progress is delivered: "idle" (no
\* pointer down), "child" (the view did not intercept: every further event
\* passes through onInterceptTouchEvent) or "self" (the view intercepted:
\* every further event goes to onTouchEvent).  comp.nested tells whether a
\* nested scrolling child has started a nested scroll, which also stops the
\* parent from being asked to intercept.  comp.endDrag counts the end-drag
\* Runnables posted with postOnAnimationDelayed and not yet run.
\* ----------------------------------------------------------------------

ContentHeights == {1, 5}

UiThread(touch, nested, endDrag) ==
  [touch |-> touch, nested |-> nested, endDrag |-> endDrag]

\* the last call made on the view: what was called, with which event, what
\* it returned, whether the superclass was asked, and the view before it
Called(op, ev, ret, asked) ==
  [op |-> op, ev |-> ev, ret |-> ret, asked |-> asked, pre |-> world]

NoEvent == MotionEvent("none", 0, FALSE)

Recording == Len(world.emitted) < MaxDragEvents

InitTouch ==
  /\ \E scroller \in BOOLEAN, h \in ContentHeights :
       world = NewScrollView(scroller, ContentView(h))
  /\ comp = UiThread("idle", FALSE, 0)
  /\ lastOp = [op |-> "constructor", ev |-> NoEvent, ret |-> FALSE,
               asked |-> FALSE, pre |-> NewScrollView(TRUE, NullView)]

SetScrollEnabled ==
  /\ Recording
  /\ \E b \in BOOLEAN :
       /\ world' = setScrollEnabled(world, b)
       /\ lastOp' = Called("setScrollEnabled", NoEvent, b, FALSE)
  /\ UNCHANGED comp

SetBouncesTop ==
  /\ Recording
  /\ \E b \in BOOLEAN :
       /\ world' = setBouncesTop(world, b)
       /\ lastOp' = Called("setBouncesTop", NoEvent, b, FALSE)
  /\ UNCHANGED comp

SetBouncesBottom ==
  /\ Recording
  /\ \E b \in BOOLEAN :
       /\ world' = setBouncesBottom(world, b)
       /\ lastOp' = Called("setBouncesBottom", NoEvent, b, FALSE)
  /\ UNCHANGED comp

\* ACTION_DOWN of a new gesture: the view is asked whether it intercepts
InterceptDown ==
  /\ Recording
  /\ comp.touch = "idle"
  /\ \E y \in 0..MaxTouchY, superIntercepts \in BOOLEAN :
       LET ev == MotionEvent("ACTION_DOWN", y, TRUE)
           r == onInterceptTouchEvent(world, ev, superIntercepts)
       IN  /\ world' = r.sv
           /\ comp' = [comp EXCEPT !.touch = IF r.ret THEN "self" ELSE "child"]
           /\ lastOp' = Called("onInterceptTouchEvent", ev, r.ret, r.asked)

\* ACTION_MOVE while a child has the gesture
InterceptMove ==
  /\ Recording
  /\ comp.touch = "child"
  /\ ~comp.nested
  /\ \E y \in 0..MaxTouchY, found \in BOOLEAN, superIntercepts \in BOOLEAN :
       LET ev == MotionEvent("ACTION_MOVE", y, found)
           r == onInterceptTouchEvent(world, ev, superIntercepts)
       IN  /\ world' = r.sv
           /\ comp' = [comp EXCEPT !.touch = IF r.ret THEN "self" ELSE "child"]
           /\ lastOp' = Called("onInterceptTouchEvent", ev, r.ret, r.asked)

\* ACTION_UP while a child has the gesture: NestedScrollView never
\* intercepts it
InterceptUp ==
  /\ Recording
  /\ comp.touch = "child"
  /\ ~comp.nested
  /\ \E y \in 0..MaxTouchY :
       LET ev == MotionEvent("ACTION_UP", y, TRUE)
           r == onInterceptTouchEvent(world, ev, FALSE)
       IN  /\ world' = r.sv
           /\ comp' = [comp EXCEPT !.touch = "idle"]
           /\ lastOp' = Called("onInterceptTouchEvent", ev, r.ret, r.asked)

\* ACTION_MOVE of a gesture the view intercepted
TouchMove ==
  /\ Recording
  /\ comp.touch = "self"
  /\ \E y \in 0..MaxTouchY, dy \in {-1, 0, 1} :
       LET ev == MotionEvent("ACTION_MOVE", y, TRUE)
       IN  /\ world' = onTouchEvent(world, ev, dy)
           /\ lastOp' = Called("onTouchEvent", ev, world.mScrollEnabled, TRUE)
  /\ UNCHANGED comp

\* ACTION_UP of a gesture the view intercepted
TouchUp ==
  /\ Recording
  /\ comp.touch = "self"
  /\ \E y \in 0..MaxTouchY :
       LET ev == MotionEvent("ACTION_UP", y, TRUE)
       IN  /\ world' = onTouchEvent(world, ev, 0)
           /\ comp' = [comp EXCEPT !.touch = "idle",
                                   !.endDrag = IF postsEndDrag(world, ev)
                                               THEN @ + 1 ELSE @]
           /\ lastOp' = Called("onTouchEvent", ev, world.mScrollEnabled, TRUE)

\* a posted end-drag Runnable comes due
RunEndDrag ==
  /\ Recording
  /\ comp.endDrag > 0
  /\ world' = endDragRunnable(world)
  /\ comp' = [comp EXCEPT !.endDrag = @ - 1]
  /\ lastOp' = Called("endDragRunnable", NoEvent, FALSE, FALSE)

\* onStartNestedScroll returns true: a child starts a nested scroll
StartNestedScroll ==
  /\ Recording
  /\ comp.touch = "child"
  /\ ~comp.nested
  /\ world.mScrollEnabled
  /\ comp' = [comp EXCEPT !.nested = TRUE]
  /\ lastOp' = Called("onStartNestedScroll", NoEvent, TRUE, TRUE)
  /\ UNCHANGED world

NestedPreScroll ==
  /\ Recording
  /\ comp.nested
  /\ \E childTop \in {0, 1}, childScrollY \in {0, 1}, dy \in {-1, 1} :
       world' = onNestedPreScroll(world, childTop, childScrollY, dy)
  /\ lastOp' = Called("onNestedPreScroll", NoEvent, FALSE, FALSE)
  /\ UNCHANGED comp

\* the child lifts the pointer and stops its nested scroll
StopNestedScroll ==
  /\ Recording
  /\ comp.nested
  /\ world' = onStopNestedScroll(world)
  /\ comp' = [comp EXCEPT !.nested = FALSE, !.touch = "idle"]
  /\ lastOp' = Called("onStopNestedScroll", NoEvent, FALSE, TRUE)

NextTouch ==
  \/ SetScrollEnabled
  \/ SetBouncesTop
  \/ SetBouncesBottom
  \/ InterceptDown
  \/ InterceptMove
  \/ InterceptUp
  \/ TouchMove
  \/ TouchUp
  \/ RunEndDrag
  \/ StartNestedScroll
  \/ NestedPreScroll
  \/ StopNestedScroll

SpecTouch == InitTouch /\ [][NextTouch]_vars

\* ----------------------------------------------------------------------
\* Claims about the touch handlers
\* ----------------------------------------------------------------------

Intercepting == lastOp.op = "onInterceptTouchEvent"

\* the last call was an onInterceptTouchEvent(ACTION_MOVE) that returned
\* false from the bounce check, super.onInterceptTouchEvent not being asked
RefusedMove ==
  /\ Intercepting
  /\ lastOp.ev.action = "ACTION_MOVE"
  /\ lastOp.pre.mScrollEnabled
  /\ ~lastOp.asked

AtTop == ~canScrollVertically(lastOp.pre, -1)
AtBottom == ~canScrollVertically(lastOp.pre, 1)
PullsDown == lastOp.ev.y > lastOp.pre.mLastMotionY
PullsUp == lastOp.ev.y < lastOp.pre.mLastMotionY

\* C33: onInterceptTouchEvent refuses a MOVE without asking the superclass
\* only when the move pulls past an edge whose bounce is disabled (down at
\* the top with bouncesTop off, or up at the bottom with bouncesBottom off),
\* so a pull past an edge whose bounce is enabled is never refused; and with
\* scrolling disabled no touch is intercepted.
C33_RefusesOnlyPastDisabledEdge ==
  /\ RefusedMove =>
       \/ PullsDown /\ AtTop /\ ~lastOp.pre.mBouncesTop
       \/ PullsUp /\ AtBottom /\ ~lastOp.pre.mBouncesBottom
  /\ (Intercepting /\ ~lastOp.pre.mScrollEnabled) => ~lastOp.ret

\* the part of C33 about disabled scrolling, which the code keeps
C33_DisabledNeverIntercepts ==
  (Intercepting /\ ~lastOp.pre.mScrollEnabled) => ~lastOp.ret /\ ~lastOp.asked

\* an upward pull at the bottom edge is refused although bouncesBottom is on
C33_RefusedPastEnabledEdge ==
  /\ RefusedMove
  /\ PullsUp /\ AtBottom /\ lastOp.pre.mBouncesBottom
  /\ ~lastOp.pre.mBouncesTop

DragEvents == world.emitted

\* C31: the drag events alternate, starting with a begin (so an end-drag is
\* emitted only after an unmatched begin-drag, and no two begins or two ends
\* follow each other), and mDragging is true exactly between a begin and
\* its end.
C31_DragEventsAlternate ==
  /\ \A i \in 1..Len(DragEvents) :
       DragEvents[i] = IF i % 2 = 1 THEN "scrollBeginDrag" ELSE "scrollEndDrag"
  /\ world.mDragging <=> (Len(DragEvents) % 2 = 1)

\* a second gesture is intercepted while the end-drag Runnable of the first
\* is still posted: two begins in a row, then the Runnable ends the drag of
\* the second gesture while it is in progress
C31_BeginDuringPostedEnd ==
  /\ DragEvents = <<"scrollBeginDrag", "scrollBeginDrag", "scrollEndDrag">>
  /\ lastOp.op = "endDragRunnable"
  /\ comp.touch = "self"
  /\ ~world.mDragging

\* an end-drag without a begin before it
C31_EndWithoutBegin ==
  /\ Len(DragEvents) > 0
  /\ DragEvents[1] = "scrollEndDrag"

\* two end-drags in a row
C31_TwoEndsInARow ==
  \E i \in 1..(Len(DragEvents) - 1) :
    DragEvents[i] = "scrollEndDrag" /\ DragEvents[i + 1] = "scrollEndDrag"

\* ----------------------------------------------------------------------
\* Layout of the content view.
\*
\* The content view is added, resized and removed by the layout pass; the
\* scroll position is also moved by the scrollTo command of
\* ReactScrollViewCommandHelper, which does not look at the content.
\* ----------------------------------------------------------------------

LayoutHeights == {1, 3, 5}

\* the scroll positions a scrollTo command asks for
MaxScrollTo == 4

AtRest == UiThread("idle", FALSE, 0)

InitLayout ==
  /\ \E scroller \in BOOLEAN : world = NewScrollView(scroller, NullView)
  /\ comp = AtRest
  /\ lastOp = [op |-> "constructor", ev |-> NoEvent, ret |-> FALSE,
               asked |-> FALSE, pre |-> NewScrollView(TRUE, NullView)]

ChildViewAdded ==
  /\ world.mContentView.null
  /\ \E h \in LayoutHeights : world' = onChildViewAdded(world, ContentView(h))
  /\ lastOp' = Called("onChildViewAdded", NoEvent, FALSE, FALSE)
  /\ UNCHANGED comp

ChildViewRemoved ==
  /\ ~world.mContentView.null
  /\ world' = onChildViewRemoved(world)
  /\ lastOp' = Called("onChildViewRemoved", NoEvent, FALSE, FALSE)
  /\ UNCHANGED comp

\* ReactScrollViewCommandHelper.receiveCommand: COMMAND_SCROLL_TO
ScrollToCommand ==
  /\ \E x \in {0, 1}, y \in 0..MaxScrollTo : world' = scrollTo(world, x, y)
  /\ lastOp' = Called("scrollTo", NoEvent, FALSE, FALSE)
  /\ UNCHANGED comp

\* the content view is laid out with a new height and notifies its
\* OnLayoutChangeListener
ContentLayoutChange ==
  /\ ~world.mContentView.null
  /\ \E h \in LayoutHeights :
       LET resized == [world EXCEPT !.mContentView = ContentView(h)]
       IN  /\ world' = onLayoutChange(resized)
           /\ lastOp' = [op |-> "onLayoutChange", ev |-> NoEvent, ret |-> FALSE,
                         asked |-> FALSE, pre |-> resized]
  /\ UNCHANGED comp

\* onLayoutChange called while mContentView is null
LayoutChangeWithoutContent ==
  /\ world.mContentView.null
  /\ world' = onLayoutChange(world)
  /\ lastOp' = Called("onLayoutChange", NoEvent, FALSE, FALSE)
  /\ UNCHANGED comp

NextLayout ==
  \/ ChildViewAdded
  \/ ChildViewRemoved
  \/ ScrollToCommand
  \/ ContentLayoutChange
  \/ LayoutChangeWithoutContent

SpecLayout == InitLayout /\ [][NextLayout]_vars

\* max(0, contentHeight - viewportHeight) of the view onLayoutChange was
\* called on
MaxScrollYBefore ==
  IF lastOp.pre.mContentView.height - ViewportHeight > 0
  THEN lastOp.pre.mContentView.height - ViewportHeight
  ELSE 0

\* C34: after onLayoutChange with a content view present,
\* scrollY <= max(0, contentHeight - viewportHeight): a scrollY above the
\* maximum is set to the maximum with scrollX unchanged, a scrollY within
\* range is left unchanged; with no content view the call changes nothing.
C34_LayoutChangeClampsScrollY ==
  lastOp.op = "onLayoutChange" =>
    IF lastOp.pre.mContentView.null
    THEN world = lastOp.pre
    ELSE /\ world.scrollY <= MaxScrollYBefore
         /\ world.scrollY =
              IF lastOp.pre.scrollY > MaxScrollYBefore
              THEN MaxScrollYBefore
              ELSE lastOp.pre.scrollY
         /\ world = [lastOp.pre EXCEPT !.scrollY = world.scrollY]

\* the content shrank below the scroll position, which was off the x origin
C34_Witness ==
  /\ lastOp.op = "onLayoutChange"
  /\ ~lastOp.pre.mContentView.null
  /\ lastOp.pre.scrollY = 3
  /\ lastOp.pre.scrollX = 1
  /\ lastOp.pre.mContentView.height = 3
  /\ world.scrollY = 1
  /\ world.scrollX = 1

\* content shorter than the viewport: the maximum is 0, not negative
C34_WitnessShortContent ==
  /\ lastOp.op = "onLayoutChange"
  /\ lastOp.pre.mContentView = ContentView(1)
  /\ lastOp.pre.scrollY = 0
  /\ world.scrollY = 0

\* ----------------------------------------------------------------------
\* Momentum events.
\*
\* Time advances in ticks.  comp.timers holds, for each Runnable posted by
\* fling() with postOnAnimationDelayed and not yet finished, the ticks left
\* before it may run; comp.quiet is the number of ticks since the last
\* change of the scroll position (counted up to MomentumDelay);
\* comp.overlapped tells whether a fling started while an earlier one had
\* its Runnable still posted.
\* ----------------------------------------------------------------------

\* ReactScrollViewHelper.MOMENTUM_DELAY, in ticks
MomentumDelay == 2

\* the calls of fling() in one run
MaxFlings == 3

Clock(timers, quiet, overlapped, flings) ==
  [timers |-> timers, quiet |-> quiet, overlapped |-> overlapped,
   flings |-> flings]

\* fling(velocityY), lines 438-456: what it does to the view; the Runnable
\* it posts is added to the timers by the caller.
\* isScrollPerfLoggingEnabled() is false (no FpsListener).
fling(sv) ==
  IF sv.mSendMomentumEvents
  THEN [emit(sv, "momentumScrollBegin") EXCEPT !.mFlinging = TRUE]
  ELSE sv

\* the Runnable of fling (lines 442-454); it posts itself again when
\* mDoneFlinging was false
momentumRunnable(sv) ==
  IF sv.mDoneFlinging
  THEN [emit(sv, "momentumScrollEnd") EXCEPT !.mFlinging = FALSE]
  ELSE [sv EXCEPT !.mDoneFlinging = TRUE]

\* onScrollChanged(x, y, oldX, oldY) with a position that changed
\* (mOnScrollDispatchHelper.onScrollChanged returns true)
onScrollChanged(sv, y) ==
  [sv EXCEPT !.scrollY = y,
             !.mDoneFlinging = IF sv.mFlinging THEN FALSE ELSE @]

RemoveAt(s, i) == SubSeq(s, 1, i - 1) \o SubSeq(s, i + 1, Len(s))

InitMomentum ==
  /\ \E scroller \in BOOLEAN : world = NewScrollView(scroller, ContentView(5))
  /\ \E quiet \in 0..MomentumDelay : comp = Clock(<< >>, quiet, FALSE, 0)
  /\ lastOp = [op |-> "constructor", ev |-> NoEvent, ret |-> FALSE,
               asked |-> FALSE, pre |-> NewScrollView(TRUE, NullView)]

SetSendMomentumEvents ==
  /\ \E b \in BOOLEAN :
       /\ world' = setSendMomentumEvents(world, b)
       /\ lastOp' = Called("setSendMomentumEvents", NoEvent, b, FALSE)
  /\ UNCHANGED comp

Fling ==
  /\ comp.flings < MaxFlings
  /\ world' = fling(world)
  /\ comp' = [comp EXCEPT
       !.flings = @ + 1,
       !.timers = IF world.mSendMomentumEvents
                  THEN Append(@, MomentumDelay) ELSE @,
       !.overlapped = IF world.mSendMomentumEvents
                      THEN comp.timers # << >> ELSE @]
  /\ lastOp' = Called("fling", NoEvent, world.mSendMomentumEvents, FALSE)

\* a posted Runnable whose delay has passed runs
RunMomentum ==
  \E i \in 1..Len(comp.timers) :
    /\ comp.timers[i] = 0
    /\ world' = momentumRunnable(world)
    /\ comp' = [comp EXCEPT
         !.timers = IF world.mDoneFlinging
                    THEN RemoveAt(@, i)
                    ELSE [@ EXCEPT ![i] = MomentumDelay]]
    /\ lastOp' = Called("momentumRunnable", NoEvent, world.mDoneFlinging, FALSE)

\* the scroller or a drag moves the content by one step
ScrollChanged ==
  /\ \E y \in {world.scrollY - 1, world.scrollY + 1} \cap 0..getMaxScrollY(world) :
       world' = onScrollChanged(world, y)
  /\ comp' = [comp EXCEPT !.quiet = 0]
  /\ lastOp' = Called("onScrollChanged", NoEvent, world.mFlinging, FALSE)

\* one tick passes; a Runnable that is due may run late
Tick ==
  /\ comp' = [comp EXCEPT
       !.quiet = Min(@ + 1, MomentumDelay),
       !.timers = [i \in 1..Len(@) |-> Max(@[i] - 1, 0)]]
  /\ lastOp' = Called("tick", NoEvent, FALSE, FALSE)
  /\ UNCHANGED world

NextMomentum ==
  \/ SetSendMomentumEvents
  \/ Fling
  \/ RunMomentum
  \/ ScrollChanged
  \/ Tick

SpecMomentum == InitMomentum /\ [][NextMomentum]_vars

MomentumEvents == world.emitted
Begins == Cardinality({i \in 1..Len(MomentumEvents) : MomentumEvents[i] = "momentumScrollBegin"})
Ends == Cardinality({i \in 1..Len(MomentumEvents) : MomentumEvents[i] = "momentumScrollEnd"})

EndedMomentum == lastOp.op = "momentumRunnable" /\ lastOp.ret

\* C32: with momentum events enabled every fling() emits one
\* momentum-begin; a momentum-end is emitted only when no scroll-position
\* change occurred during the last MOMENTUM_DELAY, also for a fling that
\* starts before an earlier one has ended or after one has completed; and
\* there is never more than one momentum-end per momentum-begin.
C32_EndOnlyAfterQuietDelay ==
  /\ (lastOp.op = "fling" /\ lastOp.pre.mSendMomentumEvents) =>
       MomentumEvents = Append(lastOp.pre.emitted, "momentumScrollBegin")
  /\ EndedMomentum => comp.quiet >= MomentumDelay
  /\ Ends <= Begins

\* the same for flings that do not overlap, which the code keeps
C32_QuietWhenNotOverlapped ==
  /\ (lastOp.op = "fling" /\ lastOp.pre.mSendMomentumEvents) =>
       MomentumEvents = Append(lastOp.pre.emitted, "momentumScrollBegin")
  /\ (EndedMomentum /\ ~comp.overlapped) => comp.quiet >= MomentumDelay
  /\ Ends <= Begins

\* a momentum-end right after a scroll change, the second fling's Runnable
\* still posted
C32_EndWhileScrolling ==
  /\ EndedMomentum
  /\ comp.quiet = 0
  /\ comp.overlapped
  /\ Len(comp.timers) = 1

\* a fling started after an earlier one completed (mDoneFlinging still
\* true) has ended
C32_SecondFlingAfterFirstEnded ==
  /\ EndedMomentum
  /\ ~comp.overlapped
  /\ Begins = 2
  /\ Ends = 2

=============================================================================
